---- MODULE Spec2Model ----
(***************************************************************************)
(* Model of the agent orchestration core of the AIDE backend.              *)
(*                                                                         *)
(* The repository holds two implementations of the tool registry and of    *)
(* the websocket session protocol:                                         *)
(*   "api"  : src/backend/api.py (ToolRegistry, websocket_endpoint)        *)
(*   "main" : src/backend/main.py with services/tool_service.py            *)
(* The variable impl selects the one a behaviour runs; it never changes.   *)
(***************************************************************************)
EXTENDS Naturals, Sequences, FiniteSets, TLC

VARIABLES
    impl,       \* which implementation runs
    tools,      \* ToolRegistry._tools, in insertion order
    metadata,   \* ToolRegistry._tool_metadata (tool_service.py), in insertion order
    fattr,      \* the __desc__ / __schema__ attributes of each function object (api.py)
    last,       \* the last registry operation called directly, and its outcome
    regLog,     \* the register calls made directly, oldest first
    state,      \* per session: Connecting, Open or Closed
    pc,         \* per session: where its websocket_endpoint coroutine is suspended
    snap,       \* per session: the local `tools` of the handshake (api.py)
    unit,       \* per session: the local `name` of the propose_new_tool branch
    code,       \* per session: the local `code` of the propose_new_tool branch
    greeted,    \* per session: whether its initial message has been sent
    files,      \* the tools directory: unit name -> source text
    ev,         \* the step taken last: session, step and inbound message
    sent,       \* the messages that step sent to its session, in order
    fn          \* a function called on its own: its name, its input and its result

regVars == <<tools, metadata, fattr>>

sessVars == <<state, pc, snap, unit, code, greeted, files, ev, sent>>

vars == <<impl, tools, metadata, fattr, last, regLog,
          state, pc, snap, unit, code, greeted, files, ev, sent, fn>>

Impls == {"api", "main"}

(***************************************************************************)
(* Input domains.                                                          *)
(***************************************************************************)
\* Tool names offered to the registry.
Names == {"echo", "greet"}

\* Callables offered as handlers:
\*   h1      a plain function returning a dict without a "success" key
\*   h2      a plain function returning a string
\*   hfail   a plain function that raises
\*   hmethod a bound method or builtin: a callable that rejects new attributes
\*   hthrow  a callable object whose __desc__ attribute raises when read
Handlers == {"h1", "h2", "hfail", "hmethod", "hthrow"}

\* The description and schema arguments of a register call: schema None
\* (the decorator's default) or a non-empty schema.
Metas == {[desc |-> "d1", schema |-> "None"], [desc |-> "d2", schema |-> "{q}"]}

\* Keyword-argument sets of a call, each the set of its keys.
ArgSets == {{}, {"text"}, {"name"}, {"query"}}

\* Number of register calls a behaviour of the registry makes.
MaxRegister == 2

NoFunc == "none"

(***************************************************************************)
(* Python values and outcomes.                                             *)
(***************************************************************************)
\* A string built by a format template from a tool name and a list of names.
Text(template, tool, names) == [template |-> template, tool |-> tool, names |-> names]

Lit(s) == Text(s, "", <<>>)

\* A dict with the given keys ("success" among them when success # "absent");
\* wraps names the type of the value under its "result" key, if it wraps one.
PyDict(body, keys, success, wraps) ==
    [type |-> "dict", body |-> body, keys |-> keys, success |-> success, wraps |-> wraps]

PyStr(body) ==
    [type |-> "str", body |-> body, keys |-> {}, success |-> "absent", wraps |-> ""]

PyNone == PyStr(Lit("None"))

Returned(v, h, a) ==
    [kind |-> "return", value |-> v, exc |-> "none", invoked |-> h, args |-> a]

\* An exception of type e whose str() is m; h is the handler that was invoked
\* before it was raised (NoFunc when no handler ran).
Raised(e, m, h, a) ==
    [kind |-> "raise", value |-> PyStr(m), exc |-> e, invoked |-> h, args |-> a]

\* Whether `func.__desc__ = desc` succeeds on the callable.
AcceptsAttributes(h) == h # "hmethod"

\* Whether reading `func.__desc__` raises.
DescReadRaises(h) == h = "hthrow"

\* What the callable does when invoked with keyword arguments a.
Invoke(h, a) ==
    CASE h = "h1" -> Returned(PyDict(Lit("r1"), {"text"}, "absent", ""), h, a)
      [] h = "h2" -> Returned(PyStr(Lit("r2")), h, a)
      [] h = "hfail" -> Raised("ValueError", Lit("boom"), h, a)
      [] h = "hmethod" -> Returned(PyDict(Lit("r3"), {"success", "result"}, "True", ""), h, a)
      [] OTHER -> Returned(PyStr(Lit("r4")), h, a)

(***************************************************************************)
(* Ordered dictionaries: a sequence of [name, ...] records, keys unique,   *)
(* in insertion order.                                                     *)
(***************************************************************************)
Keys(d) == {d[i].name : i \in 1..Len(d)}

KeyList(d) == [i \in 1..Len(d) |-> d[i].name]

Lookup(d, n) == d[CHOOSE i \in 1..Len(d) : d[i].name = n]

\* d[n] = entry: a present key keeps its position, a new key goes last.
Put(d, entry) ==
    IF entry.name \in Keys(d)
    THEN [i \in 1..Len(d) |-> IF d[i].name = entry.name THEN entry ELSE d[i]]
    ELSE Append(d, entry)

Range(f) == {f[i] : i \in DOMAIN f}

\* str.lower() on the names of the model
Lower(t) == IF t = "Wikipedia" THEN "wikipedia" ELSE t

\* self.search_providers of ToolService
SearchProviders == <<"duckduckgo", "wikipedia", "perplexity">>

\* `schema or {}`
SchemaOrEmpty(s) == IF s = "None" THEN "{}" ELSE s

NoAttr == [set |-> FALSE, desc |-> "", schema |-> "{}"]

(***************************************************************************)
(* ToolRegistry                                                            *)
(***************************************************************************)
\* The registry as a value, so that operations are functions on it.
Registry == [tools |-> tools, metadata |-> metadata, fattr |-> fattr]

EmptyRegistry ==
    [tools |-> <<>>, metadata |-> <<>>, fattr |-> [h \in Handlers |-> NoAttr]]

\* register of api.py binding the name without storing the metadata.
register_api_unset(r, n, h, d, s) ==
    [reg |-> [r EXCEPT !.tools = Put(r.tools, [name |-> n, func |-> h])],
     out |-> Returned(PyNone, NoFunc, {})]

\* register(name, func, desc, schema) of api.py: the metadata goes on the
\* function object, then the name is bound.  Assigning the attribute raises
\* AttributeError on a callable that takes none, before anything is stored.
register_api(r, n, h, d, s) ==
    IF ~AcceptsAttributes(h)
    THEN [reg |-> r, out |-> Raised("AttributeError", Lit("no attribute __desc__"), NoFunc, {})]
    ELSE [reg |-> [r EXCEPT
                     !.fattr[h] = [set |-> TRUE, desc |-> d, schema |-> SchemaOrEmpty(s)],
                     !.tools = Put(r.tools, [name |-> n, func |-> h])],
          out |-> Returned(PyNone, NoFunc, {})]

\* register(name, func, desc, schema) of tool_service.py: two dictionaries.
register_main(r, n, h, d, s) ==
    [reg |-> [r EXCEPT
                !.tools = Put(r.tools, [name |-> n, func |-> h]),
                !.metadata = Put(r.metadata,
                    [name |-> n, description |-> d,
                     schema |-> SchemaOrEmpty(s), function |-> h])],
     out |-> Returned(PyNone, NoFunc, {})]

register(i, r, n, h, d, s) ==
    IF i = "api" THEN register_api(r, n, h, d, s) ELSE register_main(r, n, h, d, s)

exists(r, n) == n \in Keys(r.tools)

get_tool_names(r) == KeyList(r.tools)

\* Python binds the keyword arguments of call(self, name, **kwargs) before
\* the body runs: a key "name" (or "self") collides with the parameter.
BindsCallParameters(a) == a \cap {"name", "self"} = {}

ArgumentCollision(a) ==
    Raised("TypeError", Lit("call() got multiple values for argument 'name'"), NoFunc, a)

\* call(name, **kwargs) of api.py: a bare dictionary lookup, then the call.
call_api(r, n, a) ==
    IF ~BindsCallParameters(a) THEN ArgumentCollision(a)
    ELSE IF n \notin Keys(r.tools)
         THEN Raised("KeyError", Text("{tool}", n, <<>>), NoFunc, a)
         ELSE Invoke(Lookup(r.tools, n).func, a)

\* call(name, **kwargs) of tool_service.py: an explicit membership test that
\* raises KeyError with a message, then the call; a handler's exception is
\* logged and re-raised as it is.
call_main(r, n, a) ==
    IF ~BindsCallParameters(a) THEN ArgumentCollision(a)
    ELSE IF n \notin Keys(r.tools)
         THEN Raised("KeyError",
                     Text("Tool '{tool}' not found. Available: {names}", n, KeyList(r.tools)),
                     NoFunc, a)
         ELSE Invoke(Lookup(r.tools, n).func, a)

call(i, r, n, a) == IF i = "api" THEN call_api(r, n, a) ELSE call_main(r, n, a)

\* One element of the list serialize() builds.
ToolEntry(n, d, s) == [name |-> n, description |-> d, args_schema |-> s]

\* The list comprehension of serialize(): the list, or the exception that
\* building it raises.  api.py reads the metadata off each function object,
\* tool_service.py reads its metadata dictionary.
serialize_list(i, r) ==
    IF i = "api"
    THEN IF \E k \in 1..Len(r.tools) : DescReadRaises(r.tools[k].func)
         THEN [ok |-> FALSE, list |-> <<>>]
         ELSE [ok |-> TRUE,
               list |-> [k \in 1..Len(r.tools) |->
                           ToolEntry(r.tools[k].name,
                                     r.fattr[r.tools[k].func].desc,
                                     r.fattr[r.tools[k].func].schema)]]
    ELSE [ok |-> TRUE,
          list |-> [k \in 1..Len(r.metadata) |->
                      ToolEntry(r.metadata[k].name,
                                r.metadata[k].description,
                                r.metadata[k].schema)]]

\* serialize() with its try/except removed.
serialize_unguarded(i, r) ==
    [raised |-> ~serialize_list(i, r).ok, list |-> serialize_list(i, r).list]

\* serialize(): try: return [...] except Exception: return []
serialize(i, r) ==
    [raised |-> FALSE,
     list |-> IF serialize_list(i, r).ok THEN serialize_list(i, r).list ELSE <<>>]

(***************************************************************************)
(* The registry driven directly: register, exists, call, serialize.        *)
(***************************************************************************)
NoOut == Returned(PyNone, NoFunc, {})

\* No function has been called on its own.
NoFn == [op |-> "none"]

Sessions == {"s1", "s2"}

\* Unit names a propose_new_tool message may carry (the file is <name>.py).
Units == {"u1"}

NoEvent == [s |-> "", step |-> "init", tool |-> "", args |-> {}, type |-> ""]

\* No connection has been made and the tools directory holds no proposed unit.
SessionsIdle ==
    /\ state = [s \in Sessions |-> "Connecting"]
    /\ pc = [s \in Sessions |-> "accept"]
    /\ snap = [s \in Sessions |-> <<>>]
    /\ unit = [s \in Sessions |-> ""]
    /\ code = [s \in Sessions |-> <<>>]
    /\ greeted = [s \in Sessions |-> FALSE]
    /\ files = [u \in Units |-> <<>>]
    /\ ev = NoEvent
    /\ sent = <<>>

InitRegistry ==
    /\ impl \in Impls
    /\ tools = <<>>
    /\ metadata = <<>>
    /\ fattr = [h \in Handlers |-> NoAttr]
    /\ last = [op |-> "init", name |-> "", out |-> NoOut, list |-> <<>>, raised |-> FALSE]
    /\ regLog = <<>>
    /\ fn = NoFn
    /\ SessionsIdle

SetRegistry(r) ==
    /\ tools' = r.tools
    /\ metadata' = r.metadata
    /\ fattr' = r.fattr

Register(n, h, d, s) ==
    /\ Len(regLog) < MaxRegister
    /\ SetRegistry(register(impl, Registry, n, h, d, s).reg)
    /\ last' = [op |-> "register", name |-> n,
                out |-> register(impl, Registry, n, h, d, s).out,
                list |-> <<>>, raised |-> FALSE]
    /\ regLog' = Append(regLog, [name |-> n, func |-> h, desc |-> d, schema |-> s])
    /\ UNCHANGED <<impl, fn, sessVars>>

Exists(n) ==
    /\ last' = [op |-> "exists", name |-> n,
                out |-> Returned(PyStr(Lit(IF exists(Registry, n) THEN "True" ELSE "False")),
                                 NoFunc, {}),
                list |-> <<>>, raised |-> FALSE]
    /\ UNCHANGED <<impl, fn, tools, metadata, fattr, regLog, sessVars>>

Call(n, a) ==
    /\ last' = [op |-> "call", name |-> n, out |-> call(impl, Registry, n, a),
                list |-> <<>>, raised |-> FALSE]
    /\ UNCHANGED <<impl, fn, tools, metadata, fattr, regLog, sessVars>>

\* serialize() as a draining read: the entries it lists are taken out of the
\* registry.
Serialize_draining ==
    /\ last' = [op |-> "serialize", name |-> "", out |-> NoOut,
                list |-> serialize(impl, Registry).list,
                raised |-> serialize(impl, Registry).raised]
    /\ tools' = <<>>
    /\ metadata' = <<>>
    /\ UNCHANGED <<impl, fn, fattr, regLog, sessVars>>

Serialize ==
    /\ last' = [op |-> "serialize", name |-> "", out |-> NoOut,
                list |-> serialize(impl, Registry).list,
                raised |-> serialize(impl, Registry).raised]
    /\ UNCHANGED <<impl, fn, tools, metadata, fattr, regLog, sessVars>>

NextRegistry ==
    \/ \E n \in Names, h \in Handlers, m \in Metas : Register(n, h, m.desc, m.schema)
    \/ \E n \in Names \cup {"missing"} : Exists(n)
    \/ \E n \in Names \cup {"missing"}, a \in ArgSets : Call(n, a)
    \/ Serialize

SpecRegistry == InitRegistry /\ [][NextRegistry]_vars

(***************************************************************************)
(* Properties of the registry, stated for SpecRegistry.                    *)
(***************************************************************************)
\* The register calls made so far that named n, oldest first.
RegistrationsOf(n) == SelectSeq(regLog, LAMBDA e : e.name = n)

LatestRegistration(n) == RegistrationsOf(n)[Len(RegistrationsOf(n))]

\* The exception type by which the code reports a name that is not
\* registered (there is no ToolNotFound class: both registries raise KeyError).
ToolNotFound == "KeyError"

\* C1: for every name n and handler h, once register(n, h, d, s) has been
\* called and n has not been registered again, exists(n) is true and
\* call(n, args) invokes h with args and returns what h returns.
C1_RegisterThenExistsAndCall ==
    \A n \in Names :
        RegistrationsOf(n) # <<>> =>
            /\ exists(Registry, n)
            /\ \A a \in ArgSets :
                   /\ call(impl, Registry, n, a).invoked = LatestRegistration(n).func
                   /\ call(impl, Registry, n, a) = Invoke(LatestRegistration(n).func, a)

\* C2: a call on a name that is not registered fails with the not-found
\* error and with no other exception type.
C2_MissingToolIsNotFound ==
    (last.op = "call" /\ ~exists(Registry, last.name)) =>
        /\ last.out.kind = "raise"
        /\ last.out.exc = ToolNotFound

\* C3: re-registration is last-write-wins: after register(x, h1, ...) and then
\* register(x, h2, ...), register has succeeded, the registry holds exactly
\* one entry named x, and call(x, args) invokes h2.
C3_LastWriteWins ==
    \A n \in Names :
        Len(RegistrationsOf(n)) >= 2 =>
            /\ (last.op = "register" /\ last.name = n) => last.out.kind = "return"
            /\ Cardinality({k \in 1..Len(tools) : tools[k].name = n}) = 1
            /\ \A a \in ArgSets :
                   call(impl, Registry, n, a).invoked = LatestRegistration(n).func

\* C4: serialize() is total: in every reachable registry state it returns a
\* list and raises nothing, and when building the list fails inside (a
\* description that cannot be read) the list it returns is empty.
C4_SerializeTotal ==
    last.op = "serialize" =>
        /\ ~last.raised
        /\ ~serialize_list(impl, Registry).ok => last.list = <<>>
        /\ serialize_list(impl, Registry).ok => Len(last.list) = Len(tools)

\* serialize() has run on a registry that holds a readable tool and one whose
\* description raises when read, and returned the empty list.
C4_Witness ==
    /\ last.op = "serialize"
    /\ Len(tools) = 2
    /\ \E k \in 1..Len(tools) : DescReadRaises(tools[k].func)
    /\ \E k \in 1..Len(tools) : ~DescReadRaises(tools[k].func)
    /\ ~serialize_list(impl, Registry).ok
    /\ last.list = <<>>

(***************************************************************************)
(* The mode classifier: should_use_tool_mode of api.py and of              *)
(* core/conversation_modes.py.                                             *)
(***************************************************************************)
\* A message is a list of clauses, joined by ", " in the text.
Clauses == {"I think", "please", "show me files", "read the config", "create",
            "you should", "this may", "concerns with", "hello", "Can you",
            "i want you to"}

\* Number of clauses of a message.
MaxClauses == 2

Messages == UNION {[1..n -> Clauses] : n \in 1..MaxClauses}

\* str.lower() on a clause
LowerClause(c) ==
    CASE c = "I think" -> "i think"
      [] c = "Can you" -> "can you"
      [] OTHER -> c

lower(m) == [k \in 1..Len(m) |-> LowerClause(m[k])]

\* The phrases of the classifiers that occur in a clause as a substring.
Occurs ==
    "Can you" :> {} @@
    "I think" :> {"think"} @@
    "can you" :> {"can you"} @@
    "concerns with" :> {"concern", "concerns with"} @@
    "create" :> {"create"} @@
    "hello" :> {} @@
    "i think" :> {"i think", "think"} @@
    "i want you to" :> {"i want you to", "want"} @@
    "please" :> {"please"} @@
    "read the config" :> {"read", "read the"} @@
    "show me files" :> {"file", "show me"} @@
    "this may" :> {"may", "this may"} @@
    "you should" :> {"should"}

\* `phrase in text`
In(phrase, text) == \E k \in 1..Len(text) : phrase \in Occurs[text[k]]

\* any(pattern in text for pattern in patterns)
AnyIn(patterns, text) == \E p \in patterns : In(p, text)

discussion_patterns_api ==
    {"i think", "i believe", "i'm worried", "i'm concerned",
     "this might", "this could", "this may", "what if",
     "do you think", "opinion", "thoughts on", "feelings about",
     "problem with", "issue with", "concerns about", "discuss"}

command_patterns ==
    {"i want you to", "i need you to", "please", "can you",
     "go ahead and", "help me", "show me the", "read the",
     "search for", "find the", "analyze the", "check the"}

command_context == {"want", "need", "should", "please", "can you", "help"}

discussion_context == {"think", "might", "could", "may", "problem", "issue", "concern"}

\* should_use_tool_mode of api.py
should_use_tool_mode_api(message) ==
    LET message_lower == lower(message)
    IN  IF AnyIn(discussion_patterns_api, message_lower) THEN FALSE
        ELSE IF AnyIn(command_patterns, message_lower) THEN TRUE
        ELSE IF In("create", message_lower)
             THEN IF AnyIn(discussion_context, message_lower) THEN FALSE
                  ELSE AnyIn(command_context, message_lower)
             ELSE FALSE

tool_triggers ==
    {"read", "file", "analyze", "codebase", "directory", "folder",
     "show me", "list", "find", "search", "look at", "examine",
     "what files", "see files", "project structure", "workspace",
     "get context", "current file", "open file"}

question_patterns ==
    {"what is in", "what's in", "show me the", "can you read",
     "what does this file", "what are the files", "list all"}

discussion_patterns_modes ==
    {"i think", "i believe", "opinion", "what if", "do you think",
     "explain", "tell me about", "how does", "why", "what is",
     "i'm worried", "i'm concerned", "this might", "this could",
     "discuss", "thoughts on", "feelings about"}

\* should_use_tool_mode of core/conversation_modes.py: the tool triggers are
\* tested first.
should_use_tool_mode_modes(message) ==
    LET message_lower == lower(message)
    IN  IF AnyIn(tool_triggers, message_lower) THEN TRUE
        ELSE IF AnyIn(question_patterns, message_lower) THEN TRUE
        ELSE IF AnyIn(discussion_patterns_modes, message_lower) THEN FALSE
        ELSE FALSE

should_use_tool_mode(i, message) ==
    IF i = "api" THEN should_use_tool_mode_api(message)
    ELSE should_use_tool_mode_modes(message)

\* The mode a query is handled in.
Mode(b) == IF b THEN "tool_mode" ELSE "conversation_mode"

(***************************************************************************)
(* The tool-call extractor: the head of generate_with_tool_calling in      *)
(* api.py and of StreamingService._process_tool_calls.                     *)
(***************************************************************************)
\* Assistant text is a list of tokens.  A token written kw[id] is given by
\* its keyword and its bracketed part; a plain word has no keyword.
Token(kw, id) == [kw |-> kw, id |-> id]

Tokens == { Token("TOOL", "wikipedia"), Token("tool", "wikipedia"),
            Token("TOOL", "read_file"), Token("TOOL", "echo"),
            Token("", "wikipedia"), Token("TOOL", "a-b") }

\* Number of tokens of an assistant text.
MaxTokens == 3

AssistantTexts == UNION {[1..n -> Tokens] : n \in 0..MaxTokens}

\* re.I on the keyword
UpperKw(kw) == IF kw = "tool" THEN "TOOL" ELSE kw

\* Whether the bracketed part matches \w+ as a whole.
IsWord(id) == id \in {"wikipedia", "read_file", "echo"}

\* re.compile(r"TOOL\[(\w+)\]", re.I).findall(text): the captured
\* identifiers, in the order of the text.
RECURSIVE findall(_)
findall(text) ==
    IF text = <<>> THEN <<>>
    ELSE IF UpperKw(Head(text).kw) = "TOOL" /\ IsWord(Head(text).id)
         THEN <<Head(text).id>> \o findall(Tail(text))
         ELSE findall(Tail(text))

\* The orders in which iterating a Python set of strings can yield its
\* elements: the order follows the string hashes, which differ from one
\* process to the next.
Orderings(S) ==
    {q \in [1..Cardinality(S) -> S] : \A j, k \in 1..Cardinality(S) : j # k => q[j] # q[k]}

\* for tool in set(tools_found): the names the loop of api.py visits.
extract_api(text) == Orderings(Range(findall(text)))

\* The three patterns of _process_tool_calls as they are written, with the
\* doubled backslashes of the source, and whether re.compile accepts them:
\* "TOOL\\[([\\w]+)\\]" has an unbalanced parenthesis, "TOOL::([\\w]+)\\("
\* an unterminated group.
tool_patterns ==
    << [src |-> "TOOL\\\\[([\\\\w]+)\\\\]", compiles |-> FALSE],
       [src |-> "TOOL::([\\\\w]+)\\\\(", compiles |-> FALSE],
       [src |-> "TOOL:([\\\\w]+)", compiles |-> TRUE] >>

\* _process_tool_calls: building the pattern list raises re.error inside the
\* outer try, whose except returns the text unchanged with no tools; the
\* scan and the dispatch loop after it are never reached.
extract_stream(text) ==
    IF \E k \in 1..Len(tool_patterns) : ~tool_patterns[k].compiles
    THEN { <<>> }
    ELSE Orderings(Range(findall(text)))

extract(i, text) == IF i = "api" THEN extract_api(text) ELSE extract_stream(text)

(***************************************************************************)
(* The search-provider chain: the provider functions and                   *)
(* hybrid_online_search of api.py and of ToolService.                      *)
(***************************************************************************)
\* Provider ids a configuration may list; "bing" has no provider function.
ProviderIds == {"duckduckgo", "wikipedia", "searxng", "perplexity", "bing"}

\* What the remote service does with a request: it answers with a text
\* ("hit"), with no result ("none"), with a result whose text is empty
\* ("blank"), or the request raises (HTTP error, timeout: "fail").
HttpOutcomes == {"hit", "none", "blank", "fail"}

\* Number of providers in the configured order.
MaxChain == 2

\* A configured order with the outcome of each provider's request.
Chains ==
    UNION {[order : [1..n -> ProviderIds], outs : [1..n -> HttpOutcomes]] : n \in 1..MaxChain}

\* PROVIDER_FUNCS of api.py, the four of its six keys that the model uses.
PROVIDER_FUNCS == {"perplexity", "searxng", "duckduckgo", "wikipedia"}

ProviderReturn(text) == [kind |-> "return", text |-> text]

ProviderRaise(text) == [kind |-> "raise", text |-> text]

search_duckduckgo(o) ==
    CASE o = "fail" -> ProviderRaise("HTTPError")
      [] o = "hit" -> ProviderReturn("snippet")
      [] OTHER -> ProviderReturn("No concise answer.")

search_wikipedia(o) ==
    CASE o = "fail" -> ProviderRaise("HTTPError")
      [] o = "hit" -> ProviderReturn("snippet")
      [] o = "blank" -> ProviderReturn("")
      [] OTHER -> ProviderReturn("No Wikipedia result found.")

search_searxng(o) ==
    CASE o = "fail" -> ProviderRaise("HTTPError")
      [] o = "hit" -> ProviderReturn("snippet")
      [] o = "blank" -> ProviderReturn("")
      [] OTHER -> ProviderReturn("No results.")

\* resp.json()["answer"] raises KeyError when the answer is missing.
search_perplexity(o) ==
    CASE o = "fail" -> ProviderRaise("HTTPError")
      [] o = "hit" -> ProviderReturn("snippet")
      [] o = "blank" -> ProviderReturn("")
      [] OTHER -> ProviderRaise("KeyError")

provider_api(p, o) ==
    CASE p = "duckduckgo" -> search_duckduckgo(o)
      [] p = "wikipedia" -> search_wikipedia(o)
      [] p = "searxng" -> search_searxng(o)
      [] OTHER -> search_perplexity(o)

\* `"No result" in text` and `"not available" in text` on the texts above.
HasNoResult(text) == text = "No results."

HasNotAvailable(text) == FALSE

NoError == [provider |-> "", msg |-> ""]

ChainFound(p, text) ==
    [ok |-> TRUE, provider |-> p, result |-> text, template |-> "", last_error |-> NoError]

ChainError(template, e) ==
    [ok |-> FALSE, provider |-> "", result |-> "", template |-> template, last_error |-> e]

\* hybrid_online_search of api.py from provider k on: last_error is assigned
\* only in the except branch.
RECURSIVE hybrid_api(_, _, _)
hybrid_api(c, k, last_error) ==
    IF k > Len(c.order)
    THEN ChainError("No provider returned a result. Last error: {last_error}", last_error)
    ELSE IF c.order[k] \notin PROVIDER_FUNCS THEN hybrid_api(c, k + 1, last_error)
    ELSE LET result == provider_api(c.order[k], c.outs[k])
         IN  IF result.kind = "raise"
             THEN hybrid_api(c, k + 1, [provider |-> c.order[k], msg |-> result.text])
             ELSE IF /\ result.text # ""
                     /\ ~HasNoResult(result.text)
                     /\ ~HasNotAvailable(result.text)
                  THEN ChainFound(c.order[k], result.text)
                  ELSE hybrid_api(c, k + 1, last_error)

ProviderDict(success, result, error) ==
    [success |-> success, result |-> result, error |-> error]

\* The providers of ToolService catch every exception themselves.
_search_duckduckgo(o) ==
    CASE o = "fail" -> ProviderDict(FALSE, "", "DuckDuckGo search failed: HTTPError")
      [] o = "hit" -> ProviderDict(TRUE, "snippet", "")
      [] OTHER -> ProviderDict(TRUE, "No concise answer found.", "")

_search_wikipedia(o) ==
    CASE o = "fail" -> ProviderDict(FALSE, "", "Wikipedia search failed: HTTPError")
      [] o = "hit" -> ProviderDict(TRUE, "snippet", "")
      [] o = "blank" -> ProviderDict(TRUE, "", "")
      [] OTHER -> ProviderDict(TRUE, "No Wikipedia result found.", "")

_search_perplexity(o) ==
    CASE o = "fail" -> ProviderDict(FALSE, "", "Perplexity search failed: HTTPError")
      [] o = "hit" -> ProviderDict(TRUE, "snippet", "")
      [] o = "blank" -> ProviderDict(TRUE, "", "")
      [] OTHER -> ProviderDict(FALSE, "", "Perplexity search failed: 'answer'")

provider_main(p, o) ==
    CASE p = "duckduckgo" -> _search_duckduckgo(o)
      [] p = "wikipedia" -> _search_wikipedia(o)
      [] OTHER -> _search_perplexity(o)

\* ToolService.hybrid_online_search from provider k on: the providers never
\* raise, so last_error keeps its initial value.
RECURSIVE hybrid_main(_, _, _)
hybrid_main(c, k, last_error) ==
    IF k > Len(c.order)
    THEN ChainError("No provider returned a valid result. Last error: {last_error}", last_error)
    ELSE IF c.order[k] \notin Range(SearchProviders) THEN hybrid_main(c, k + 1, last_error)
    ELSE LET result == provider_main(c.order[k], c.outs[k])
         IN  IF result.success /\ result.result # ""
             THEN ChainFound(c.order[k], result.result)
             ELSE hybrid_main(c, k + 1, last_error)

hybrid_online_search(i, c) ==
    IF i = "api" THEN hybrid_api(c, 1, NoError) ELSE hybrid_main(c, 1, NoError)

(***************************************************************************)
(* The dispatcher: the loop of generate_with_tool_calling in api.py and    *)
(* StreamingService._process_tool_calls.                                   *)
(***************************************************************************)
\* Names an assistant text may request: registered tools, a name that is
\* not registered, and a search provider.
RequestNames == Names \cup {"nope", "wikipedia"}

\* A piece appended to the response text: a result block or an error note.
Block(t) == [kind |-> "block", tool |-> t]

Note(t) == [kind |-> "note", tool |-> t]

\* An entry of the actions list.
Action(type, t, v) == [type |-> type, tool |-> t, result |-> v, error |-> ""]

Dispatched(pieces, used_tools, actions) ==
    [pieces |-> pieces, used_tools |-> used_tools, actions |-> actions]

\* What running one requested name adds.  A provider and a registered tool
\* each run in their own try: a success appends the name, an action and a
\* result block, an exception appends an error note only.  A name that is
\* neither is passed over.
run_tool_api(r, t, o) ==
    IF Lower(t) \in PROVIDER_FUNCS
    THEN IF provider_api(Lower(t), o).kind = "return"
         THEN Dispatched(<<Block(t)>>, <<t>>,
                         <<Action("search_tool", t, PyStr(Lit(provider_api(Lower(t), o).text)))>>)
         ELSE Dispatched(<<Note(t)>>, <<>>, <<>>)
    ELSE IF exists(r, t)
         THEN IF call_api(r, t, {}).kind = "return"
              THEN Dispatched(<<Block(t)>>, <<t>>,
                              <<Action("custom_tool", t, call_api(r, t, {}).value)>>)
              ELSE Dispatched(<<Note(t)>>, <<>>, <<>>)
         ELSE Dispatched(<<>>, <<>>, <<>>)

\* The loop `for tool in set(tools_found)` of api.py over the names in the
\* order the set yields them; o is the outcome of a provider's request.
RECURSIVE dispatch_api(_, _, _)
dispatch_api(r, names, o) ==
    IF names = <<>> THEN Dispatched(<<>>, <<>>, <<>>)
    ELSE LET first == run_tool_api(r, Head(names), o)
             rest == dispatch_api(r, Tail(names), o)
         IN  Dispatched(first.pieces \o rest.pieces,
                        first.used_tools \o rest.used_tools,
                        first.actions \o rest.actions)

\* _process_tool_calls returns from its outer except before its loop: the
\* response text is unchanged and the two lists are empty.
dispatch_stream(r, names, o) == Dispatched(<<>>, <<>>, <<>>)

dispatch(i, r, names, o) ==
    IF i = "api" THEN dispatch_api(r, names, o) ELSE dispatch_stream(r, names, o)

(***************************************************************************)
(* The session protocol: websocket_endpoint of api.py and of main.py.      *)
(* A coroutine runs without interruption from one await to the next, so    *)
(* each action below is the code between two awaits of one session.        *)
(***************************************************************************)
\* Tool names an invoke message may carry: registered or not, empty, and one
\* that differs from a search provider's id only by case.
InvokeNames == Names \cup {"nope", "", "Wikipedia"}

\* Message types that no branch of either message loop matches by name, and
\* a message without a "type" key (data.get("type") is None).
UnknownTypes == {"bogus", "None"}

\* One statement of a tool source unit: a @tool-decorated function, or a
\* statement that raises when the unit is executed.
ToolStmt(n, h, d, s) == [op |-> "tool", name |-> n, func |-> h, desc |-> d, schema |-> s]

RaiseStmt == [op |-> "raise", name |-> "", func |-> NoFunc, desc |-> "", schema |-> "None"]

\* Source texts a propose_new_tool message may carry.
Codes == {
    <<ToolStmt("greet", "h1", "d1", "None")>>,
    <<ToolStmt("echo", "h2", "d2", "{q}")>>,
    <<RaiseStmt>>,
    <<ToolStmt("greet", "h2", "d2", "{q}"), RaiseStmt>> }

\* The tool units found in the tools directory at startup.
StartupUnits == {
    <<>>,
    <<ToolStmt("echo", "h1", "d1", "{q}")>>,
    <<ToolStmt("echo", "hfail", "d1", "None"), ToolStmt("greet", "h2", "d2", "{q}")>> }

\* spec.loader.exec_module(module): the statements run in order, each @tool
\* registering at once; the first exception ends the execution and what was
\* registered before it stays registered.
RECURSIVE exec_module(_, _, _)
exec_module(i, r, src) ==
    IF src = <<>> THEN [reg |-> r, ok |-> TRUE]
    ELSE IF Head(src).op = "raise" THEN [reg |-> r, ok |-> FALSE]
    ELSE LET x == register(i, r, Head(src).name, Head(src).func,
                           Head(src).desc, Head(src).schema)
         IN  IF x.out.kind = "raise" THEN [reg |-> x.reg, ok |-> FALSE]
             ELSE exec_module(i, x.reg, Tail(src))

\* Outbound messages.  field names the key that carries the text ("message"
\* or "error"); extra names further keys of the envelope.
BaseMsg ==
    [type |-> "", tool |-> "", result |-> PyNone, success |-> "absent",
     field |-> "", text |-> Lit(""), tools |-> <<>>, total_tools |-> 0,
     caps |-> {}, extra |-> {}, mode |-> "", pieces |-> <<>>,
     tools_invoked |-> <<>>, actions |-> <<>>]

ErrorMsg(f, t) == [BaseMsg EXCEPT !.type = "error", !.field = f, !.text = t]

\* {"success": False, "error": msg}
ErrDict(m) == PyDict(m, {"success", "error"}, "False", "")

\* What a search provider of tool_service.py returns for a query.
ProviderResults ==
    { PyDict(Lit("snippet"), {"success", "result"}, "True", ""),
      ErrDict(Lit("Wikipedia search failed")) }

\* The initial message of api.py, built from the snapshot taken earlier.
InitialMessageApi(snapshot) ==
    [BaseMsg EXCEPT !.type = "registry", !.tools = snapshot,
                    !.total_tools = Len(snapshot),
                    !.caps = {"available_models", "current_model", "model_status"}]

\* The initial message of main.py.
InitialMessageMain(r) ==
    [BaseMsg EXCEPT !.type = "connection_established",
                    !.tools = serialize("main", r).list,
                    !.total_tools = Len(serialize("main", r).list),
                    !.caps = {"gpu_detected", "model_status", "memory", "speech", "gpu_backend"}]

\* The invoke branch of api.py.
InvokeReplyApi(r, t, a) ==
    IF exists(r, t)
    THEN IF call_api(r, t, a).kind = "return"
         THEN << [BaseMsg EXCEPT !.type = "tool_response", !.tool = t,
                                 !.result = call_api(r, t, a).value] >>
         ELSE << ErrorMsg("message",
                   Text("Tool {tool} failed: {e}", t,
                        <<call_api(r, t, a).value.body.template>>)) >>
    ELSE << ErrorMsg("message",
              Text("Tool {tool} not found. Available: {names}", t, get_tool_names(r))) >>

\* The result normalisation of execute_tool.
Normalize(v) ==
    IF v.type = "dict"
    THEN IF "success" \in v.keys THEN v
         ELSE [v EXCEPT !.keys = @ \cup {"success"}, !.success = "True"]
    ELSE PyDict(v.body, {"success", "result"}, "True", v.type)

\* ToolService.execute_tool; p is what the search provider returns.
execute_tool(r, t, a, p) ==
    IF Lower(t) \in Range(SearchProviders)
    THEN IF "query" \notin a THEN ErrDict(Lit("No query provided for search")) ELSE p
    ELSE IF exists(r, t)
         THEN IF call_main(r, t, a).kind = "return"
              THEN Normalize(call_main(r, t, a).value)
              ELSE ErrDict(call_main(r, t, a).value.body)
         ELSE ErrDict(Text("Tool '{tool}' not found. Available: {names}", t,
                           get_tool_names(r) \o SearchProviders))

\* handle_tool_invocation of main.py.
handle_tool_invocation(r, t, a, p) ==
    IF t = ""
    THEN << ErrorMsg("error", Lit("No tool name provided")) >>
    ELSE << [BaseMsg EXCEPT !.type = "tool_response", !.tool = t,
                            !.success = execute_tool(r, t, a, p).success,
                            !.result = execute_tool(r, t, a, p),
                            !.extra = {"success", "gpu_first_mode", "timestamp"}] >>

\* The final else of the message loop of main.py; a message without a type
\* fails at msg_type.startswith and is answered by the except Exception branch.
UnknownTypeReplyMain(ty) ==
    IF ty = "None"
    THEN << ErrorMsg("error", Text("Processing failed: {e}", "",
                                   <<"'NoneType' object has no attribute 'startswith'">>)) >>
    ELSE << ErrorMsg("error", Text("Unknown message type: {type}", ty, <<>>)) >>

\* The if/elif chain of the message loop of api.py has no final else.
UnknownTypeReplyApi(ty) == << >>

\* The reply of the propose_new_tool branch of api.py once the unit has run.
HotLoadReply(u, res) ==
    IF res.ok
    THEN << [BaseMsg EXCEPT !.type = "registry",
                            !.tools = serialize("api", res.reg).list,
                            !.field = "message",
                            !.text = Text("Tool '{tool}' created successfully", u, <<>>),
                            !.total_tools = Len(get_tool_names(res.reg)),
                            !.caps = {"available_models", "current_model"}] >>
    ELSE << ErrorMsg("message", Text("Failed to create tool: {e}", u, <<>>)) >>

Init ==
    /\ impl \in Impls
    /\ \E su \in StartupUnits :
          /\ tools = exec_module(impl, EmptyRegistry, su).reg.tools
          /\ metadata = exec_module(impl, EmptyRegistry, su).reg.metadata
          /\ fattr = exec_module(impl, EmptyRegistry, su).reg.fattr
    /\ last = [op |-> "init", name |-> "", out |-> NoOut, list |-> <<>>, raised |-> FALSE]
    /\ regLog = <<>>
    /\ fn = NoFn
    /\ SessionsIdle

Event(s, step, ty, t, a) == [s |-> s, step |-> step, tool |-> t, args |-> a, type |-> ty]

\* await websocket.accept()
Accept(s) ==
    /\ state[s] = "Connecting"
    /\ state' = [state EXCEPT ![s] = "Open"]
    /\ pc' = [pc EXCEPT ![s] = IF impl = "api" THEN "hs_sleep" ELSE "hs_send"]
    /\ ev' = Event(s, "accept", "", "", {})
    /\ sent' = <<>>
    /\ UNCHANGED <<impl, fn, regVars, last, regLog, snap, unit, code, greeted, files>>

\* api.py: after asyncio.sleep(0.5), tools = tool_registry.serialize(), the
\* model listing, then asyncio.sleep(0.2).
HandshakeSnapshot(s) ==
    /\ impl = "api"
    /\ pc[s] = "hs_sleep"
    /\ snap' = [snap EXCEPT ![s] = serialize("api", Registry).list]
    /\ pc' = [pc EXCEPT ![s] = "hs_pause"]
    /\ ev' = Event(s, "hs_snapshot", "", "", {})
    /\ sent' = <<>>
    /\ UNCHANGED <<impl, fn, regVars, last, regLog, state, unit, code, greeted, files>>

\* The initial message is sent: api.py sends the snapshot it took before the
\* pause, main.py serializes and sends with no await in between.
HandshakeSend(s) ==
    /\ \/ /\ impl = "api"
          /\ pc[s] = "hs_pause"
          /\ sent' = <<InitialMessageApi(snap[s])>>
       \/ /\ impl = "main"
          /\ pc[s] = "hs_send"
          /\ sent' = <<InitialMessageMain(Registry)>>
    /\ pc' = [pc EXCEPT ![s] = "recv"]
    /\ snap' = [snap EXCEPT ![s] = <<>>]
    /\ greeted' = [greeted EXCEPT ![s] = TRUE]
    /\ ev' = Event(s, "hs_send", "", "", {})
    /\ UNCHANGED <<impl, fn, regVars, last, regLog, state, unit, code, files>>

\* What the search provider may return to execute_tool: either result when
\* the provider is called, and nothing to choose when it is not.
ProviderOutcomes(i, t, a) ==
    IF i = "main" /\ Lower(t) \in Range(SearchProviders) /\ "query" \in a
    THEN ProviderResults
    ELSE {ErrDict(Lit("provider not called"))}

\* The invoke branch taking the invoked tool out of the registry.
ReceiveInvoke_evicting(s, t, a) ==
    /\ state[s] = "Open"
    /\ pc[s] = "recv"
    /\ \E p \in ProviderOutcomes(impl, t, a) :
          sent' = IF impl = "api" THEN InvokeReplyApi(Registry, t, a)
                  ELSE handle_tool_invocation(Registry, t, a, p)
    /\ ev' = Event(s, "invoke", "invoke", t, a)
    /\ tools' = SelectSeq(tools, LAMBDA e : e.name # t)
    /\ UNCHANGED <<impl, fn, metadata, fattr, last, regLog, state, pc, snap, unit, code,
                   greeted, files>>

\* An invoke message is received and answered.
ReceiveInvoke(s, t, a) ==
    /\ state[s] = "Open"
    /\ pc[s] = "recv"
    /\ \E p \in ProviderOutcomes(impl, t, a) :
          sent' = IF impl = "api" THEN InvokeReplyApi(Registry, t, a)
                  ELSE handle_tool_invocation(Registry, t, a, p)
    /\ ev' = Event(s, "invoke", "invoke", t, a)
    /\ UNCHANGED <<impl, fn, regVars, last, regLog, state, pc, snap, unit, code, greeted, files>>

\* A propose_new_tool message is received (the event keeps the source text it
\* carries in a field of its own).  api.py writes the source to
\* tools/<name>.py and awaits asyncio.sleep(0.1); main.py has no branch for
\* the type and answers as for any unknown type.
ReceivePropose(s, u, c) ==
    /\ state[s] = "Open"
    /\ pc[s] = "recv"
    /\ ev' = Event(s, "propose", "propose_new_tool", u, {}) @@ ("code" :> c)
    /\ \/ /\ impl = "api"
          /\ files' = [files EXCEPT ![u] = c]
          /\ unit' = [unit EXCEPT ![s] = u]
          /\ code' = [code EXCEPT ![s] = c]
          /\ pc' = [pc EXCEPT ![s] = "load_sleep"]
          /\ sent' = <<>>
       \/ /\ impl = "main"
          /\ sent' = UnknownTypeReplyMain("propose_new_tool")
          /\ UNCHANGED <<files, unit, code, pc>>
    /\ UNCHANGED <<impl, fn, regVars, last, regLog, state, snap, greeted>>

\* The propose_new_tool branch with no try around the load and none around
\* the loop body: a unit that fails to load ends the coroutine.
HotLoadExec_unguarded(s) ==
    /\ impl = "api"
    /\ pc[s] = "load_sleep"
    /\ SetRegistry(exec_module("api", Registry, files[unit[s]]).reg)
    /\ IF exec_module("api", Registry, files[unit[s]]).ok
       THEN /\ sent' = HotLoadReply(unit[s], exec_module("api", Registry, files[unit[s]]))
            /\ pc' = [pc EXCEPT ![s] = "recv"]
            /\ UNCHANGED state
       ELSE /\ sent' = <<>>
            /\ pc' = [pc EXCEPT ![s] = "done"]
            /\ state' = [state EXCEPT ![s] = "Closed"]
    /\ ev' = Event(s, "load", "propose_new_tool", unit[s], {})
    /\ UNCHANGED <<impl, fn, last, regLog, snap, unit, code, greeted, files>>

\* api.py, after the sleep: the file tools/<name>.py is loaded as it is now
\* and executed, the registry is serialized and the reply is sent.
HotLoadExec(s) ==
    /\ impl = "api"
    /\ pc[s] = "load_sleep"
    /\ SetRegistry(exec_module("api", Registry, files[unit[s]]).reg)
    /\ sent' = HotLoadReply(unit[s], exec_module("api", Registry, files[unit[s]]))
    /\ pc' = [pc EXCEPT ![s] = "recv"]
    /\ ev' = Event(s, "load", "propose_new_tool", unit[s], {})
    /\ UNCHANGED <<impl, fn, last, regLog, state, snap, unit, code, greeted, files>>

\* A message of a type that no branch matches is received.
ReceiveUnknown(s, ty) ==
    /\ state[s] = "Open"
    /\ pc[s] = "recv"
    /\ sent' = IF impl = "api" THEN UnknownTypeReplyApi(ty) ELSE UnknownTypeReplyMain(ty)
    /\ ev' = Event(s, "unknown", ty, "", {})
    /\ UNCHANGED <<impl, fn, regVars, last, regLog, state, pc, snap, unit, code, greeted, files>>

\* The inference backend at the time of a query: a model is loaded and
\* generates, a model is loaded and generating raises, a model is being
\* loaded (main.py), no model is loaded.
QueryStatus == {"ready", "failing", "loading", "unloaded"}

\* The queries of the model: a message that api.py handles in tool mode, with
\* every status, and the empty message, which it handles as chat.
QueryCases ==
    {[m |-> <<"please">>, st |-> st] : st \in QueryStatus}
    \cup {[m |-> <<>>, st |-> "unloaded"]}

\* Texts the model may generate for a query in tool mode.
QueryTexts == { <<Token("TOOL", "echo"), Token("TOOL", "wikipedia")>> }

Response(mode, text, d) ==
    [BaseMsg EXCEPT !.type = "response", !.mode = mode, !.text = text,
                    !.pieces = d.pieces, !.tools_invoked = d.used_tools,
                    !.actions = d.actions]

NothingDispatched == Dispatched(<<>>, <<>>, <<>>)

\* The query branch of api.py.  names is the order in which the set of the
\* extracted names is iterated, o the outcome of a provider's request.  An
\* exception inside generate_with_tool_calling is caught there and returned
\* as the response text.
QueryReplyApi(r, m, st, names, o) ==
    IF should_use_tool_mode_api(m)
    THEN CASE st = "ready" ->
                << Response("tool", Lit("generated"), dispatch_api(r, names, o)) >>
           [] st = "failing" ->
                << Response("tool", Text("Model generation failed: {e}", "", <<>>),
                            NothingDispatched) >>
           [] OTHER ->
                << Response("tool_fallback",
                            Lit("No AI model available. Please load a model to enable advanced reasoning."),
                            NothingDispatched) >>
    ELSE << Response("chat",
                     IF st = "ready" THEN Lit("generated")
                     ELSE Text("I understand you're asking about: {message}. How can I help you with this?",
                               "", <<>>),
                     NothingDispatched) >>

Thinking ==
    [BaseMsg EXCEPT !.type = "thinking", !.field = "message",
                    !.text = Lit("Processing with GPU-FIRST backend...")]

\* handle_gpu_first_query of main.py with model preloading enabled: no tool
\* is extracted or run on this path.
handle_gpu_first_query(m, st) ==
    IF m = <<>> THEN << ErrorMsg("error", Lit("No message provided")) >>
    ELSE CASE st = "unloaded" ->
                << Thinking,
                   ErrorMsg("error", Lit("GPU model not loaded and preloading is disabled")) >>
           [] st = "loading" ->
                << Thinking,
                   [BaseMsg EXCEPT !.type = "loading", !.field = "message",
                                   !.text = Lit("GPU model is currently loading, please wait...")] >>
           [] st = "failing" ->
                << Thinking,
                   ErrorMsg("error", Text("GPU generation failed: {e}", "", <<>>)) >>
           [] OTHER ->
                << Thinking,
                   Response("gpu_first_backend", Lit("generated"), NothingDispatched) >>

\* What a dispatching query can meet: the generated text, the order in which
\* the set of its names is iterated, and the outcome of a provider's request
\* where a provider is among the names.
ToolRuns ==
    UNION { UNION { {[names |-> n, o |-> o] :
                        o \in IF \E k \in 1..Len(n) : Lower(n[k]) \in PROVIDER_FUNCS
                              THEN {"hit", "fail"} ELSE {"hit"}} :
                    n \in extract_api(g) } :
            g \in QueryTexts }

\* Nothing is generated for tools and no provider is called except where
\* api.py dispatches.
QueryRuns(i, m, st) ==
    IF i = "api" /\ should_use_tool_mode_api(m) /\ st = "ready"
    THEN ToolRuns
    ELSE {[names |-> <<>>, o |-> "hit"]}

\* A query message is received and answered.  The event keeps the status of
\* the inference backend at the time (in its tool field) and whether the
\* query carried a message (in its args field).
ReceiveQuery(s, m, st) ==
    /\ state[s] = "Open"
    /\ pc[s] = "recv"
    /\ impl = "api" => st # "loading"
    /\ \E x \in QueryRuns(impl, m, st) :
           sent' = IF impl = "api" THEN QueryReplyApi(Registry, m, st, x.names, x.o)
                   ELSE handle_gpu_first_query(m, st)
    /\ ev' = Event(s, "query", "query", st, IF m = <<>> THEN {} ELSE {"message"})
    /\ UNCHANGED <<impl, fn, regVars, last, regLog, state, pc, snap, unit, code, greeted, files>>

\* Inbound payloads that are no message: text that is not JSON, and JSON
\* that is not an object (data.get raises AttributeError).
MalformedKinds == {"not_json", "not_object"}

\* The message loop without its exception handlers' sends.
MalformedReply_silent(i, k) == << >>

\* The reply to a payload that is no message: the except json.JSONDecodeError
\* branch, or the except Exception branch for any other failure.
MalformedReply(i, k) ==
    << ErrorMsg(IF i = "api" THEN "message" ELSE "error",
                IF k = "not_json" THEN Text("Invalid JSON: {e}", "", <<>>)
                ELSE Text("Processing failed: {e}", "",
                          <<"'list' object has no attribute 'get'">>)) >>

\* What the except asyncio.TimeoutError branch sends: api.py only prints and
\* continues, main.py sends a keepalive.
TimeoutReply(i) ==
    IF i = "api" THEN << >>
    ELSE << [BaseMsg EXCEPT !.type = "keepalive", !.extra = {"gpu_first"}] >>

\* A payload that is no message is received.
ReceiveMalformed(s, k) ==
    /\ state[s] = "Open"
    /\ pc[s] = "recv"
    /\ sent' = MalformedReply(impl, k)
    /\ ev' = Event(s, "malformed", k, "", {})
    /\ UNCHANGED <<impl, fn, regVars, last, regLog, state, pc, snap, unit, code, greeted, files>>

\* wait_for(receive_json(), timeout=30.0) times out.
Timeout(s) ==
    /\ state[s] = "Open"
    /\ pc[s] = "recv"
    /\ sent' = TimeoutReply(impl)
    /\ ev' = Event(s, "timeout", "", "", {})
    /\ UNCHANGED <<impl, fn, regVars, last, regLog, state, pc, snap, unit, code, greeted, files>>

\* The transport disconnects while the session waits for a message:
\* receive_json raises WebSocketDisconnect inside the loop's try.  It is an
\* Exception, so the loop's except Exception branch takes it and sends an
\* error on the dead transport, which raises.  In main.py that exception
\* leaves the handler, reaches the outer except and the coroutine ends; in
\* api.py the send is inside a try of its own.
ReceiveDisconnect(s) ==
    /\ state[s] = "Open"
    /\ pc[s] = "recv"
    /\ IF impl = "api"
       THEN /\ pc' = [pc EXCEPT ![s] = "err_send"]
            /\ UNCHANGED state
       ELSE /\ pc' = [pc EXCEPT ![s] = "done"]
            /\ state' = [state EXCEPT ![s] = "Closed"]
    /\ sent' = <<>>
    /\ ev' = Event(s, "disconnect", "", "", {})
    /\ UNCHANGED <<impl, fn, regVars, last, regLog, snap, unit, code, greeted, files>>

\* api.py after a disconnect.  The send of the error raises, the bare except
\* around it swallows that, and the while True goes round ("err_send" to
\* "dead"); the next receive_json raises RuntimeError, which the except
\* Exception branch takes as before ("dead" to "err_send").
SpinDisconnected(s) ==
    /\ impl = "api"
    /\ pc[s] \in {"err_send", "dead"}
    /\ pc' = [pc EXCEPT ![s] = IF pc[s] = "err_send" THEN "dead" ELSE "err_send"]
    /\ sent' = <<>>
    /\ ev' = Event(s, "spin", "", "", {})
    /\ UNCHANGED <<impl, fn, regVars, last, regLog, state, snap, unit, code, greeted, files>>

Next ==
    \E s \in Sessions :
        \/ Accept(s)
        \/ HandshakeSnapshot(s)
        \/ HandshakeSend(s)
        \/ \E t \in InvokeNames, a \in ArgSets : ReceiveInvoke(s, t, a)
        \/ \E u \in Units, c \in Codes : ReceivePropose(s, u, c)
        \/ HotLoadExec(s)
        \/ \E ty \in UnknownTypes : ReceiveUnknown(s, ty)
        \/ \E q \in QueryCases : ReceiveQuery(s, q.m, q.st)
        \/ \E k \in MalformedKinds : ReceiveMalformed(s, k)
        \/ Timeout(s)
        \/ ReceiveDisconnect(s)
        \/ SpinDisconnected(s)

Spec == Init /\ [][Next]_vars

(***************************************************************************)
(* Properties of the session protocol, stated for Spec.                    *)
(***************************************************************************)
\* The tools that a source text defines.
DefinedBy(src) == {src[k].name : k \in {j \in 1..Len(src) : src[j].op = "tool"}}

SerializedNames(i, r) == {e.name : e \in Range(serialize(i, r).list)}

\* The reply an invoke of tool t with no arguments gets now.
InvokeNow(t) ==
    IF impl = "api" THEN InvokeReplyApi(Registry, t, {})
    ELSE handle_tool_invocation(Registry, t, {}, ErrDict(Lit("provider not called")))

\* The step just taken answered a propose_new_tool message with the registry
\* snapshot that reports success.
HotLoadSucceeded ==
    /\ ev.step = "load"
    /\ Len(sent) = 1
    /\ sent[1].type = "registry"

\* C5: once a propose_new_tool message whose source defines a tool named N has
\* been processed successfully, the very next serialize() contains an entry
\* named N and an invoke of N is answered by a tool_response.
C5_HotLoadedToolVisible ==
    HotLoadSucceeded =>
        \A n \in DefinedBy(code[ev.s]) :
            /\ n \in SerializedNames(impl, Registry)
            /\ Len(InvokeNow(n)) = 1
            /\ InvokeNow(n)[1].type = "tool_response"

\* A registered name has its handler and its metadata.
ToolComplete(n) ==
    IF impl = "api"
    THEN fattr[Lookup(tools, n).func].set
    ELSE /\ n \in Keys(metadata)
         /\ Lookup(metadata, n).function = Lookup(tools, n).func

RegistryComplete ==
    /\ \A n \in Keys(tools) : ToolComplete(n)
    /\ Keys(metadata) \subseteq Keys(tools)

\* C6: hot-loading is atomic for the other sessions: at every point where
\* another session can run, every registered tool is complete (name, handler
\* and metadata), and the registry changes only in the single step in which a
\* session executes its unit, from the registry before the load to the
\* registry after it.
C6_HotLoadAtomic ==
    /\ []RegistryComplete
    /\ [][ regVars' # regVars =>
             /\ ev'.step = "load"
             /\ pc[ev'.s] = "load_sleep"
             /\ [tools |-> tools', metadata |-> metadata', fattr |-> fattr']
                    = exec_module(impl, Registry, files[unit[ev'.s]]).reg ]_vars

\* While one session is between persisting its unit and executing it, another
\* session has invoked a tool of that unit and was told it is not registered,
\* and all that is registered is complete.
C6_Witness ==
    \E s \in Sessions :
        /\ pc[s] = "load_sleep"
        /\ ev.s # s
        /\ ev.step = "invoke"
        /\ ev.tool \in DefinedBy(files[unit[s]])
        /\ ~exists(Registry, ev.tool)
        /\ tools # <<>>
        /\ sent # <<>>
        /\ sent[1].type = "error"

HandshakeTypes == {"registry", "connection_established", "handshake"}

\* C7: the first outbound message of a session is a handshake that carries
\* the current serialize() output and the capability flags, and it is sent
\* before any inbound message of the session is processed.
C7_HandshakeFirstAndCurrent ==
    /\ ev.step = "hs_send" =>
          /\ Len(sent) = 1
          /\ sent[1].type \in HandshakeTypes
          /\ sent[1].caps # {}
          /\ sent[1].tools = serialize(impl, Registry).list
    /\ ev.step \in {"invoke", "propose", "load", "unknown"} => greeted[ev.s]

\* C8: an invoke of a registered tool whose handler returns r for the given
\* args is answered by exactly one tool_response, for that tool, whose result
\* is r unchanged.
C8_InvokeReturnsHandlerResult ==
    ( /\ ev.step = "invoke"
      /\ exists(Registry, ev.tool)
      /\ Invoke(Lookup(tools, ev.tool).func, ev.args).kind = "return" ) =>
        /\ Len(sent) = 1
        /\ sent[1].type = "tool_response"
        /\ sent[1].tool = ev.tool
        /\ sent[1].result = Invoke(Lookup(tools, ev.tool).func, ev.args).value

\* C9: an invoke of a name that is not registered is answered by an error
\* message "Tool <name> not found. Available: [...]" and the session stays
\* Open, waiting for its next message.
C9_InvokeMissingToolIsError ==
    (ev.step = "invoke" /\ ~exists(Registry, ev.tool)) =>
        /\ Len(sent) = 1
        /\ sent[1].type = "error"
        /\ sent[1].field = "message"
        /\ sent[1].text = Text("Tool {tool} not found. Available: {names}",
                               ev.tool, get_tool_names(Registry))
        /\ state[ev.s] = "Open"
        /\ pc[ev.s] = "recv"

\* C10: a message of an unrecognized type is answered by an error message
\* that describes the type, and the session stays Open.
C10_UnknownTypeIsError ==
    ev.step = "unknown" =>
        /\ Len(sent) = 1
        /\ sent[1].type = "error"
        /\ ev.type # "None" => sent[1].text.tool = ev.type
        /\ state[ev.s] = "Open"
        /\ pc[ev.s] = "recv"

\* The steps of a session that run without waiting for the client.
SessionLoop(s) ==
    \/ HandshakeSnapshot(s)
    \/ HandshakeSend(s)
    \/ HotLoadExec(s)
    \/ SpinDisconnected(s)

\* The event loop runs every coroutine that is ready to run.
SpecLive == Init /\ [][Next]_vars /\ \A s \in Sessions : WF_vars(SessionLoop(s))

\* C11: an inbound payload that cannot be parsed is answered by an error
\* message, and the session stays Open, waiting for its next message.
C11_MalformedIsError ==
    ev.step = "malformed" =>
        /\ Len(sent) = 1
        /\ sent[1].type = "error"
        /\ sent[1].field \in {"message", "error"}
        /\ state[ev.s] = "Open"
        /\ pc[ev.s] = "recv"

\* Text that is not JSON has been received and answered by an error, and the
\* session is waiting for its next message.
C11_Witness ==
    /\ ev.step = "malformed"
    /\ ev.type = "not_json"
    /\ sent # <<>>
    /\ sent[1].type = "error"
    /\ sent[1].text.template = "Invalid JSON: {e}"
    /\ state[ev.s] = "Open"
    /\ pc[ev.s] = "recv"

\* C12: whenever an Open session receives no message within the idle
\* interval, the server sends it a keepalive message and the session stays
\* Open.
C12_TimeoutSendsKeepalive ==
    ev.step = "timeout" =>
        /\ Len(sent) = 1
        /\ sent[1].type = "keepalive"
        /\ state[ev.s] = "Open"

\* The handshake left apart, a tool has failed in the step taken last: the
\* invoke was answered by an error or a failure, the unit failed to load, or
\* the dispatch of a query left an error note.
ToolFailed ==
    /\ sent # <<>>
    /\ \/ ev.step \in {"invoke", "load"} /\ sent[Len(sent)].type = "error"
       \/ ev.step = "invoke" /\ sent[Len(sent)].success = "False"
       \/ ev.step = "query" /\ \E k \in 1..Len(sent[Len(sent)].pieces) :
                                   sent[Len(sent)].pieces[k].kind = "note"

\* C13: no tool failure closes a session: after every query, invoke and
\* propose_new_tool step the session is Open, whatever failed in it, and a
\* session goes from Open to Closed only in the step that handles its
\* transport's disconnect.
C13_ToolFailureKeepsOpen ==
    /\ [](ev.step \in {"query", "invoke", "propose", "load"} =>
             /\ state[ev.s] = "Open"
             /\ pc[ev.s] \in {"recv", "load_sleep"})
    /\ [][ \A s \in Sessions :
               (state[s] = "Open" /\ state'[s] = "Closed") =>
                   (ev'.step = "disconnect" /\ ev'.s = s) ]_vars

\* A unit has just failed to load into a registry that holds a tool whose
\* handler raises, and the session is Open and waiting for its next message.
C13_Witness ==
    /\ ev.step = "load"
    /\ ToolFailed
    /\ \E k \in 1..Len(tools) : tools[k].func = "hfail"
    /\ state[ev.s] = "Open"
    /\ pc[ev.s] = "recv"

\* C14: once the transport of an Open session has disconnected, the session
\* eventually is Closed.
C14_DisconnectLeadsToClosed ==
    \A s \in Sessions : (pc[s] \in {"err_send", "dead", "done"}) ~> (state[s] = "Closed")

(***************************************************************************)
(* The functions of query processing, each called on its own.              *)
(***************************************************************************)
\* Nothing but the function call happens: no registration, no session.
Quiet ==
    /\ last = [op |-> "init", name |-> "", out |-> NoOut, list |-> <<>>, raised |-> FALSE]
    /\ regLog = <<>>
    /\ SessionsIdle

\* A message is given to should_use_tool_mode.
InitClassifier ==
    /\ impl \in Impls
    /\ tools = <<>>
    /\ metadata = <<>>
    /\ fattr = [h \in Handlers |-> NoAttr]
    /\ Quiet
    /\ fn \in {[op |-> "message", message |-> m, mode |-> ""] : m \in Messages}

Classify ==
    /\ fn.op = "message"
    /\ fn' = [fn EXCEPT !.op = "should_use_tool_mode",
                        !.mode = Mode(should_use_tool_mode(impl, fn.message))]
    /\ UNCHANGED <<impl, regVars, last, regLog, sessVars>>

NextClassifier == Classify

SpecClassifier == InitClassifier /\ [][NextClassifier]_vars

\* An assistant text is given to the extractor.
InitExtractor ==
    /\ impl \in Impls
    /\ tools = <<>>
    /\ metadata = <<>>
    /\ fattr = [h \in Handlers |-> NoAttr]
    /\ Quiet
    /\ fn \in {[op |-> "text", text |-> t, names |-> <<>>] : t \in AssistantTexts}

Extract ==
    /\ fn.op = "text"
    /\ \E n \in extract(impl, fn.text) :
           fn' = [fn EXCEPT !.op = "extract", !.names = n]
    /\ UNCHANGED <<impl, regVars, last, regLog, sessVars>>

NextExtractor == Extract

SpecExtractor == InitExtractor /\ [][NextExtractor]_vars

\* A configured provider order, with what each provider's service does, is
\* given to hybrid_online_search.
InitSearch ==
    /\ impl \in Impls
    /\ tools = <<>>
    /\ metadata = <<>>
    /\ fattr = [h \in Handlers |-> NoAttr]
    /\ Quiet
    /\ fn \in {[op |-> "chain", chain |-> c, result |-> ChainError("", NoError)] : c \in Chains}

Search ==
    /\ fn.op = "chain"
    /\ fn' = [fn EXCEPT !.op = "hybrid_online_search",
                        !.result = hybrid_online_search(impl, fn.chain)]
    /\ UNCHANGED <<impl, regVars, last, regLog, sessVars>>

NextSearch == Search

SpecSearch == InitSearch /\ [][NextSearch]_vars

\* The requested names, in the order the loop visits them, are given to the
\* dispatcher over the registry loaded at startup.
InitDispatch ==
    /\ impl \in Impls
    /\ \E su \in StartupUnits :
          /\ tools = exec_module(impl, EmptyRegistry, su).reg.tools
          /\ metadata = exec_module(impl, EmptyRegistry, su).reg.metadata
          /\ fattr = exec_module(impl, EmptyRegistry, su).reg.fattr
    /\ Quiet
    /\ fn \in {[op |-> "requested", names |-> n, o |-> o, out |-> NothingDispatched] :
                  n \in UNION {Orderings(S) : S \in SUBSET RequestNames},
                  o \in {"hit", "fail"}}

Dispatch ==
    /\ fn.op = "requested"
    /\ fn' = [fn EXCEPT !.op = "dispatch",
                        !.out = dispatch(impl, Registry, fn.names, fn.o)]
    /\ UNCHANGED <<impl, regVars, last, regLog, sessVars>>

NextDispatch == Dispatch

SpecDispatch == InitDispatch /\ [][NextDispatch]_vars

(***************************************************************************)
(* Properties of the classifier, stated for SpecClassifier.                *)
(***************************************************************************)
DiscussionMarkers ==
    {"i think", "i believe", "opinion", "what if", "do you think",
     "this might", "this could", "this may",
     "concerns with", "issue with", "problem with", "discuss"}

CommandMarkers ==
    {"please", "can you", "help me", "show me", "read the", "search for",
     "find the", "analyze the", "check the", "go ahead and"}

\* C15: discussion markers dominate: every message whose lower-cased text
\* contains a discussion marker is classified conversation_mode, whatever
\* else it contains.
C15_DiscussionDominates ==
    (fn.op = "should_use_tool_mode" /\ AnyIn(DiscussionMarkers, lower(fn.message))) =>
        fn.mode = "conversation_mode"

\* C16: every message that contains no discussion marker and contains a
\* command marker is classified tool_mode.
C16_CommandMarkerIsToolMode ==
    ( /\ fn.op = "should_use_tool_mode"
      /\ ~AnyIn(DiscussionMarkers, lower(fn.message))
      /\ AnyIn(CommandMarkers, lower(fn.message)) ) =>
        fn.mode = "tool_mode"

(***************************************************************************)
(* Properties of the extractor, stated for SpecExtractor.                  *)
(***************************************************************************)
\* A sequence without its repetitions, each element where it first occurs.
RECURSIVE FirstOccurrences(_)
FirstOccurrences(q) ==
    IF q = <<>> THEN <<>>
    ELSE LET front == FirstOccurrences(SubSeq(q, 1, Len(q) - 1))
         IN  IF q[Len(q)] \in Range(front) THEN front ELSE Append(front, q[Len(q)])

\* C17: the extractor returns exactly the distinct identifiers captured by
\* the action markers of the text, each once, in the order of their first
\* occurrence, and no name without a marker.
C17_ExtractFirstOccurrenceOrder ==
    fn.op = "extract" => fn.names = FirstOccurrences(findall(fn.text))

(***************************************************************************)
(* Properties of the search-provider chain, stated for SpecSearch.         *)
(***************************************************************************)
\* The providers the implementation has a function for.
KnownProviders == IF impl = "api" THEN PROVIDER_FUNCS ELSE Range(SearchProviders)

\* The provider at position k answers with an empty or a "no result" text.
EmptyOrSentinel(c, k) ==
    /\ c.order[k] \in KnownProviders
    /\ c.outs[k] \in {"none", "blank"}
    /\ ~(c.order[k] = "perplexity" /\ c.outs[k] = "none")

\* The provider at position k answers with a real result.
RealResult(c, k) == c.order[k] \in KnownProviders /\ c.outs[k] = "hit"

\* C18: if a provider A returns an empty or sentinel "no result" output and
\* a later provider B is the first to return a real result, the chain
\* reports provider B with B's result, and nothing of A's failure is in the
\* value returned.
C18_LaterProviderWins ==
    fn.op = "hybrid_online_search" =>
        \A a, b \in 1..Len(fn.chain.order) :
            ( /\ a < b
              /\ EmptyOrSentinel(fn.chain, a)
              /\ RealResult(fn.chain, b)
              /\ \A j \in 1..(b - 1) : ~RealResult(fn.chain, j) ) =>
                /\ fn.result.ok
                /\ fn.result.provider = fn.chain.order[b]
                /\ fn.result.result = "snippet"
                /\ fn.result.last_error = NoError

\* C19: if every configured provider fails (raises, times out, or returns an
\* empty or sentinel output), the chain returns an aggregate error, and the
\* error names the failure of the last provider that failed.
C19_AllFailNamesLast ==
    ( /\ fn.op = "hybrid_online_search"
      /\ \A k \in 1..Len(fn.chain.order) :
             fn.chain.order[k] \in KnownProviders /\ fn.chain.outs[k] # "hit" ) =>
        /\ ~fn.result.ok
        /\ fn.result.last_error.provider = fn.chain.order[Len(fn.chain.order)]

(***************************************************************************)
(* Properties of the dispatcher, stated for SpecDispatch.                  *)
(***************************************************************************)
\* The requested name resolves to a provider or a registered tool, and
\* running it raises.
RunFails(t) ==
    \/ Lower(t) \in PROVIDER_FUNCS /\ fn.o = "fail"
    \/ /\ Lower(t) \notin PROVIDER_FUNCS
       /\ exists(Registry, t)
       /\ Invoke(Lookup(tools, t).func, {}).kind = "raise"

RunSucceeds(t) ==
    \/ Lower(t) \in PROVIDER_FUNCS /\ fn.o = "hit"
    \/ /\ Lower(t) \notin PROVIDER_FUNCS
       /\ exists(Registry, t)
       /\ Invoke(Lookup(tools, t).func, {}).kind = "return"

\* C20: dispatch is best-effort: for every requested name, in any position,
\* a failure of its tool appends an error note to the response text and
\* records an Action that carries the error, a success appends a result
\* block and records an Action, and every other name is still run.
C20_DispatchBestEffort ==
    fn.op = "dispatch" =>
        \A k \in 1..Len(fn.names) :
            /\ RunFails(fn.names[k]) =>
                   /\ Note(fn.names[k]) \in Range(fn.out.pieces)
                   /\ \E a \in Range(fn.out.actions) :
                          a.tool = fn.names[k] /\ a.error # ""
            /\ RunSucceeds(fn.names[k]) =>
                   /\ Block(fn.names[k]) \in Range(fn.out.pieces)
                   /\ \E a \in Range(fn.out.actions) :
                          a.tool = fn.names[k] /\ a.error = ""

\* C21: dispatch resolves each requested name in this order: a name equal to
\* a search provider's id goes to the provider (no registered tool is called
\* for it); otherwise a registered name goes to ToolRegistry.call; otherwise
\* an Action of kind "not_found" is recorded for the name.
C21_DispatchResolutionOrder ==
    fn.op = "dispatch" =>
        \A k \in 1..Len(fn.names) :
            /\ Lower(fn.names[k]) \in PROVIDER_FUNCS =>
                   \A a \in Range(fn.out.actions) :
                       a.tool = fn.names[k] => a.type = "search_tool"
            /\ (Lower(fn.names[k]) \notin PROVIDER_FUNCS /\ exists(Registry, fn.names[k])) =>
                   \A a \in Range(fn.out.actions) :
                       a.tool = fn.names[k] => a.type = "custom_tool"
            /\ (Lower(fn.names[k]) \notin PROVIDER_FUNCS /\ ~exists(Registry, fn.names[k])) =>
                   \E a \in Range(fn.out.actions) :
                       a.tool = fn.names[k] /\ a.type = "not_found"

(***************************************************************************)
(* The event loop.  uvicorn.run starts one process with one asyncio event  *)
(* loop, and every session is a coroutine of that loop.  A tool handler    *)
(* and a search provider's requests.get are called synchronously from the  *)
(* session's coroutine: from the call to its return the loop's only thread *)
(* is inside it.  Here the call and its return are two steps, so that the  *)
(* time in between is a state.                                             *)
(***************************************************************************)
\* No session is inside a synchronous call: the loop can run a coroutine.
LoopIdle == \A x \in Sessions : pc[x] # "tool_call"

\* Whether an invoke of t with keyword arguments a reaches a handler or a
\* provider's HTTP request.
ReachesHandler(i, r, t, a) ==
    IF i = "api"
    THEN exists(r, t) /\ BindsCallParameters(a)
    ELSE /\ t # ""
         /\ IF Lower(t) \in Range(SearchProviders) THEN "query" \in a
            ELSE exists(r, t) /\ BindsCallParameters(a)

\* An invoke message is received and the handler (or the provider's request)
\* is entered: tool_registry.call(...) in api.py, self.registry.call(...) or
\* self.search_providers[...](query) under execute_tool in main.py.
CallTool(s, t, a) ==
    /\ LoopIdle
    /\ state[s] = "Open"
    /\ pc[s] = "recv"
    /\ ReachesHandler(impl, Registry, t, a)
    /\ pc' = [pc EXCEPT ![s] = "tool_call"]
    /\ ev' = Event(s, "call", "invoke", t, a)
    /\ sent' = <<>>
    /\ UNCHANGED <<impl, fn, regVars, last, regLog, state, snap, unit, code, greeted, files>>

\* The handler returns or raises, and the reply is sent.
ReturnFromTool(s) ==
    /\ pc[s] = "tool_call"
    /\ \E p \in ProviderOutcomes(impl, ev.tool, ev.args) :
          sent' = IF impl = "api" THEN InvokeReplyApi(Registry, ev.tool, ev.args)
                  ELSE handle_tool_invocation(Registry, ev.tool, ev.args, p)
    /\ pc' = [pc EXCEPT ![s] = "recv"]
    /\ ev' = Event(s, "invoke", "invoke", ev.tool, ev.args)
    /\ UNCHANGED <<impl, fn, regVars, last, regLog, state, snap, unit, code, greeted, files>>

\* The steps of a session's message loop that call no tool: they run when
\* the loop resumes the session's coroutine.
LoopReceive(s) ==
    /\ LoopIdle
    /\ \/ \E ty \in UnknownTypes : ReceiveUnknown(s, ty)
       \/ \E k \in MalformedKinds : ReceiveMalformed(s, k)

LoopTimeout(s) == LoopIdle /\ Timeout(s)

LoopHandshake(s) ==
    /\ LoopIdle
    /\ \/ Accept(s)
       \/ HandshakeSnapshot(s)
       \/ HandshakeSend(s)

NextLoop ==
    \E s \in Sessions :
        \/ LoopHandshake(s)
        \/ \E t \in InvokeNames, a \in ArgSets : CallTool(s, t, a)
        \/ ReturnFromTool(s)
        \/ LoopReceive(s)
        \/ LoopTimeout(s)

SpecLoop == Init /\ [][NextLoop]_vars

\* C22: a slow or blocking tool call in one session does not stall the
\* others: while the tool handler or the provider call of session a is in
\* progress, an inbound message of an Open session b can be processed and
\* b's idle timeout can be handled (its keepalive delivered).
C22_ToolCallDoesNotStallOthers ==
    \A a, b \in Sessions :
        (a # b /\ pc[a] = "tool_call" /\ state[b] = "Open" /\ pc[b] = "recv") =>
            /\ ENABLED LoopReceive(b)
            /\ ENABLED LoopTimeout(b)

(***************************************************************************)
(* Further properties of the session protocol, stated for Spec.            *)
(***************************************************************************)
\* The statuses in which no inference backend or model is available.
Unavailable == {"unloaded", "loading"}

\* C23: inference unavailability is recoverable: a query that carries a
\* message and is received while no backend or model is available is
\* answered by a response message and by no error, and the session stays
\* Open.
C23_UnavailableQueryIsAnswered ==
    ( /\ ev.step = "query"
      /\ ev.tool \in Unavailable
      /\ "message" \in ev.args ) =>
        /\ sent # <<>>
        /\ sent[Len(sent)].type = "response"
        /\ \A k \in 1..Len(sent) : sent[k].type # "error"
        /\ state[ev.s] = "Open"
        /\ pc[ev.s] = "recv"

(***************************************************************************)
(* Further properties of the registry, stated for SpecRegistry.            *)
(***************************************************************************)
\* The call made last reached a registered handler, and the handler raised.
HandlerFailed ==
    /\ last.op = "call"
    /\ exists(Registry, last.name)
    /\ last.out.invoked # NoFunc
    /\ Invoke(last.out.invoked, last.out.args).kind = "raise"

\* C24: when the handler of a registered tool fails during call(name, args),
\* the call raises (the failure is neither swallowed nor returned as a
\* result), and what it raises is a ToolExecutionError that carries the
\* tool's name and the handler's own failure as its cause.
C24_HandlerFailureIsToolExecutionError ==
    HandlerFailed =>
        /\ last.out.kind = "raise"
        /\ last.out.exc = "ToolExecutionError"
        /\ last.out.value.body.tool = last.name

(***************************************************************************)
(* Loading the tools directory: load_existing_tools of api.py and          *)
(* ToolService._load_existing_tools.                                       *)
(***************************************************************************)
\* Source units a tools directory may hold: those a session may propose, and
\* one whose first tool is a callable that takes no attributes.
LoadUnits ==
    Codes \cup { <<ToolStmt("echo", "hmethod", "d1", "None"),
                   ToolStmt("greet", "h1", "d1", "None")>> }

\* Number of *.py files in the directory.
MaxUnits == 3

\* The directory as glob("*.py") yields it.
Directories == UNION {[1..n -> LoadUnits] : n \in 1..MaxUnits}

\* The scan with no try around the loading of a file.
RECURSIVE load_existing_tools_unguarded(_, _, _)
load_existing_tools_unguarded(i, r, dir) ==
    IF dir = <<>> THEN [reg |-> r, tools_loaded |-> 0, raised |-> FALSE]
    ELSE LET x == exec_module(i, r, Head(dir))
             rest == load_existing_tools_unguarded(i, x.reg, Tail(dir))
         IN  IF x.ok
             THEN [reg |-> rest.reg, tools_loaded |-> 1 + rest.tools_loaded,
                   raised |-> rest.raised]
             ELSE [reg |-> x.reg, tools_loaded |-> 0, raised |-> TRUE]

\* for tool_file in tools_dir.glob("*.py"): try: exec_module ... except
\* Exception: report.  Each file is executed on the registry the files before
\* it left; a file that raises is reported and the loop goes on.
RECURSIVE load_existing_tools(_, _, _)
load_existing_tools(i, r, dir) ==
    IF dir = <<>> THEN [reg |-> r, tools_loaded |-> 0, raised |-> FALSE]
    ELSE LET x == exec_module(i, r, Head(dir))
             rest == load_existing_tools(i, x.reg, Tail(dir))
         IN  [reg |-> rest.reg,
              tools_loaded |-> (IF x.ok THEN 1 ELSE 0) + rest.tools_loaded,
              raised |-> rest.raised]

\* A directory is given to the scan over the empty registry.
InitLoad ==
    /\ impl \in Impls
    /\ tools = <<>>
    /\ metadata = <<>>
    /\ fattr = [h \in Handlers |-> NoAttr]
    /\ Quiet
    /\ fn \in {[op |-> "directory", units |-> d, tools_loaded |-> 0, raised |-> FALSE] :
                  d \in Directories}

Load ==
    /\ fn.op = "directory"
    /\ SetRegistry(load_existing_tools(impl, Registry, fn.units).reg)
    /\ fn' = [fn EXCEPT !.op = "load_existing_tools",
                        !.tools_loaded = load_existing_tools(impl, Registry, fn.units).tools_loaded,
                        !.raised = load_existing_tools(impl, Registry, fn.units).raised]
    /\ UNCHANGED <<impl, last, regLog, sessVars>>

NextLoad == Load

SpecLoad == InitLoad /\ [][NextLoad]_vars

\* The unit loads without an exception.
LoadsCleanly(src) == exec_module(impl, EmptyRegistry, src).ok

\* C25: directory loading is failure-isolated: the scan never fails, and
\* every unit of the directory that loads without an exception is loaded and
\* its tools are registered, wherever the failing units stand.
C25_DirectoryLoadIsolated ==
    fn.op = "load_existing_tools" =>
        /\ ~fn.raised
        /\ fn.tools_loaded =
               Cardinality({k \in 1..Len(fn.units) : LoadsCleanly(fn.units[k])})
        /\ \A k \in 1..Len(fn.units) :
               LoadsCleanly(fn.units[k]) =>
                   \A n \in DefinedBy(fn.units[k]) : exists(Registry, n)

\* A directory whose first unit raises and whose later unit defines echo has
\* been scanned: one file counted as loaded, and echo is registered.
C25_Witness ==
    /\ fn.op = "load_existing_tools"
    /\ Len(fn.units) >= 2
    /\ ~LoadsCleanly(fn.units[1])
    /\ LoadsCleanly(fn.units[Len(fn.units)])
    /\ "echo" \in DefinedBy(fn.units[Len(fn.units)])
    /\ exists(Registry, "echo")
    /\ fn.tools_loaded >= 1

\* C26: serialize() is idempotent and read-only: the list a serialize() call
\* returned is the list that the next serialize() call returns while the
\* registry has not been mutated (same entries, same order), and the step of
\* a serialize() call leaves the registry as it was.
C26_SerializeIdempotentReadOnly ==
    /\ [](last.op = "serialize" =>
             /\ last.list = serialize(impl, Registry).list
             /\ last.raised = serialize(impl, Registry).raised)
    /\ [][last'.op = "serialize" => regVars' = regVars]_vars

\* serialize() has returned the two entries of a registry of two tools, in
\* the order of their registration.
C26_Witness ==
    /\ last.op = "serialize"
    /\ Len(tools) = 2
    /\ Len(last.list) = 2
    /\ last.list[1].name = tools[1].name
    /\ last.list[2].name = tools[2].name
    /\ last.list[1] # last.list[2]

\* The step taken last has answered a propose_new_tool message: api.py
\* answers once the unit has been executed, main.py in the step that
\* receives the message.
ProposeAnswered ==
    \/ ev.step = "load"
    \/ ev.step = "propose" /\ pc[ev.s] = "recv"

\* The source text whose loading the answer reports.
ProposedSource == IF ev.step = "load" THEN files[unit[ev.s]] ELSE ev.code

\* C27: a propose_new_tool message is answered with a refreshed registry
\* snapshot when the load succeeds and with an error message when the load
\* fails, and in both cases the session stays Open.
C27_ProposeAnsweredBySnapshotOrError ==
    ProposeAnswered =>
        /\ Len(sent) = 1
        /\ IF exec_module(impl, Registry, ProposedSource).ok
           THEN /\ sent[1].type \in HandshakeTypes
                /\ sent[1].tools = serialize(impl, Registry).list
           ELSE sent[1].type = "error"
        /\ state[ev.s] = "Open"
        /\ pc[ev.s] = "recv"

\* C28: every error message sent on a session is the envelope of type
\* "error" whose text is in the field named "message".
C28_ErrorEnvelopeUsesMessage ==
    \A k \in 1..Len(sent) :
        sent[k].type = "error" =>
            /\ sent[k].field = "message"
            /\ sent[k].text # Lit("")

\* The steps of a session other than the execution of a proposed unit.
OrdinarySteps ==
    {"accept", "hs_snapshot", "hs_send", "invoke", "query", "unknown",
     "malformed", "timeout", "disconnect", "spin", "propose"}

\* C29: sessions own no tool state: opening a session, its handshake, a
\* query, an invoke, a keepalive and a disconnect leave the registered names,
\* their handlers and their metadata as they were; the registry changes only
\* where a proposed unit is executed (hot_load).
C29_SessionsOwnNoToolState ==
    [][ev'.step \in OrdinarySteps => regVars' = regVars]_vars

\* A query has just run a registered tool and a search provider, and two
\* tools are registered.
C29_Witness ==
    /\ ev.step = "query"
    /\ sent # <<>>
    /\ Len(sent[1].tools_invoked) = 2
    /\ Len(tools) = 2
    /\ state[ev.s] = "Open"

(***************************************************************************)
(* Further properties of the classifier, stated for SpecClassifier.        *)
(***************************************************************************)
ImperativeCues == {"want", "need", "should", "please", "can you", "help"}

HedgingCues == {"think", "might", "could", "may", "problem", "issue", "concern"}

\* C30: a message with no discussion marker and no command marker is
\* classified tool_mode if and only if it contains "create" together with an
\* imperative cue and without a hedging cue; every other such message,
\* every one without "create" among them, is classified conversation_mode.
C30_CreateRuleAndDefault ==
    ( /\ fn.op = "should_use_tool_mode"
      /\ ~AnyIn(DiscussionMarkers, lower(fn.message))
      /\ ~AnyIn(CommandMarkers, lower(fn.message)) ) =>
        ( fn.mode = "tool_mode" <=>
            /\ In("create", lower(fn.message))
            /\ AnyIn(ImperativeCues, lower(fn.message))
            /\ ~AnyIn(HedgingCues, lower(fn.message)) )

(***************************************************************************)
(* The query a search provider is given when a generated text requests it. *)
(***************************************************************************)
\* build_react_prompt_with_tools(message, context, tools): the prompt built
\* around the user's message, as a list of clauses like the message.
build_react_prompt_with_tools(message) ==
    <<"You are AIDE, an autonomous coding assistant.", "Current query analysis:">>
        \o message

\* ToolService.extract_tool_arguments(message, tool_name, context): the
\* argument dict, which has entries for read_file, online_search and
\* analyze_codebase and is empty for every other name.
extract_tool_arguments(message, tool_name) ==
    CASE tool_name = "read_file" -> [path |-> "."]
      [] tool_name = "online_search" -> [query |-> message]
      [] tool_name = "analyze_codebase" -> [path |-> "."]
      [] OTHER -> <<>>

\* What the provider named t is asked when the dispatcher meets t in the
\* text generated for the user's message m.  api.py: the query branch passes
\* enhanced_prompt as the parameter `message` of generate_with_tool_calling,
\* and the loop calls PROVIDER_FUNCS[tool.lower()](message).  tool_service.py:
\* execute_tool reads args.get("query", "") from the extracted arguments and
\* returns an error without calling the provider when it is empty.
provider_request(i, m, t) ==
    IF i = "api"
    THEN [called |-> TRUE, query |-> build_react_prompt_with_tools(m),
          error |-> ""]
    ELSE LET args == extract_tool_arguments(m, t)
         IN  IF "query" \in DOMAIN args
             THEN [called |-> TRUE, query |-> args.query, error |-> ""]
             ELSE [called |-> FALSE, query |-> <<>>,
                   error |-> "No query provided for search"]

\* Names by which a generated text may request a provider.
ProviderRequestNames == {"wikipedia", "Wikipedia", "duckduckgo"}

NoRequest == [called |-> FALSE, query |-> <<>>, error |-> ""]

\* A user's message whose generated text requests a provider.
InitProviderQuery ==
    /\ impl \in Impls
    /\ tools = <<>>
    /\ metadata = <<>>
    /\ fattr = [h \in Handlers |-> NoAttr]
    /\ Quiet
    /\ fn \in {[op |-> "requested_provider", message |-> m, name |-> t,
                request |-> NoRequest] : m \in Messages, t \in ProviderRequestNames}

RequestProvider ==
    /\ fn.op = "requested_provider"
    /\ fn' = [fn EXCEPT !.op = "provider_request",
                        !.request = provider_request(impl, fn.message, fn.name)]
    /\ UNCHANGED <<impl, regVars, last, regLog, sessVars>>

NextProviderQuery == RequestProvider

SpecProviderQuery == InitProviderQuery /\ [][NextProviderQuery]_vars

\* C31: when a requested name matches a search provider's id, the provider
\* is invoked, and its query is the user's original message: the request is
\* not rejected for lack of a query.
C31_ProviderGetsOriginalMessage ==
    (fn.op = "provider_request" /\ Lower(fn.name) \in Range(SearchProviders)) =>
        /\ fn.request.called
        /\ fn.request.query = fn.message

(***************************************************************************)
(* The for-loop of hybrid_online_search, one iteration per step, with the  *)
(* provider functions it calls.                                            *)
(***************************************************************************)
\* AIDEConfig.providers and `providers` of api.py: the primary provider
\* followed by the fallback order.
providers(online_search, fallback_order) == <<online_search>> \o fallback_order

\* The defaults of AIDEConfig._apply_defaults.
DefaultOnlineSearch == "duckduckgo"

DefaultFallbackOrder == <<"duckduckgo", "wikipedia">>

\* The default configuration with every outcome of its requests.
DefaultChains ==
    LET order == providers(DefaultOnlineSearch, DefaultFallbackOrder)
    IN  [order : {order}, outs : [1..Len(order) -> HttpOutcomes]]

\* `func = PROVIDER_FUNCS.get(provider); if func:` of api.py and
\* `if provider in self.search_providers:` of ToolService.
has_provider(i, p) ==
    IF i = "api" THEN p \in PROVIDER_FUNCS ELSE p \in Range(SearchProviders)

\* The test under which the loop returns the provider's result.
returns_result(i, p, o) ==
    IF i = "api"
    THEN LET result == provider_api(p, o)
         IN  /\ result.kind = "return"
             /\ result.text # ""
             /\ ~HasNoResult(result.text)
             /\ ~HasNotAvailable(result.text)
    ELSE LET result == provider_main(p, o)
         IN  result.success /\ result.result # ""

\* The provider's call raised into the loop's except branch.
raises(i, p, o) == i = "api" /\ provider_api(p, o).kind = "raise"

ChainLoop(c) ==
    [op |-> "for", chain |-> c, k |-> 1, invoked |-> <<>>, last_error |-> NoError,
     result |-> ChainError("", NoError)]

InitChain ==
    /\ impl \in Impls
    /\ tools = <<>>
    /\ metadata = <<>>
    /\ fattr = [h \in Handlers |-> NoAttr]
    /\ Quiet
    /\ fn \in {ChainLoop(c) : c \in Chains \cup DefaultChains}

\* The loop body with a return that does not leave the loop.
TryProvider_continuing ==
    /\ fn.op = "for"
    /\ fn.k <= Len(fn.chain.order)
    /\ LET p == fn.chain.order[fn.k]
           o == fn.chain.outs[fn.k]
       IN  IF ~has_provider(impl, p)
           THEN fn' = [fn EXCEPT !.k = @ + 1]
           ELSE IF raises(impl, p, o)
           THEN fn' = [fn EXCEPT !.k = @ + 1, !.invoked = Append(@, p),
                                 !.last_error = [provider |-> p,
                                                 msg |-> provider_api(p, o).text]]
           ELSE IF returns_result(impl, p, o)
           THEN fn' = [fn EXCEPT !.k = @ + 1, !.invoked = Append(@, p),
                                 !.result = ChainFound(p, IF impl = "api"
                                                          THEN provider_api(p, o).text
                                                          ELSE provider_main(p, o).result)]
           ELSE fn' = [fn EXCEPT !.k = @ + 1, !.invoked = Append(@, p)]
    /\ UNCHANGED <<impl, regVars, last, regLog, sessVars>>

\* One iteration of `for provider in providers:`: a provider without a
\* function is passed over; a provider with one is called, and the loop
\* returns its result when the test accepts it, records last_error when the
\* call raised, and goes on to the next provider otherwise.
TryProvider ==
    /\ fn.op = "for"
    /\ fn.k <= Len(fn.chain.order)
    /\ LET p == fn.chain.order[fn.k]
           o == fn.chain.outs[fn.k]
       IN  IF ~has_provider(impl, p)
           THEN fn' = [fn EXCEPT !.k = @ + 1]
           ELSE IF raises(impl, p, o)
           THEN fn' = [fn EXCEPT !.k = @ + 1, !.invoked = Append(@, p),
                                 !.last_error = [provider |-> p,
                                                 msg |-> provider_api(p, o).text]]
           ELSE IF returns_result(impl, p, o)
           THEN fn' = [fn EXCEPT !.op = "return", !.k = @ + 1,
                                 !.invoked = Append(@, p),
                                 !.result = ChainFound(p, IF impl = "api"
                                                          THEN provider_api(p, o).text
                                                          ELSE provider_main(p, o).result)]
           ELSE fn' = [fn EXCEPT !.k = @ + 1, !.invoked = Append(@, p)]
    /\ UNCHANGED <<impl, regVars, last, regLog, sessVars>>

\* The return after the loop: no provider's result was accepted.
ChainExhausted ==
    /\ fn.op = "for"
    /\ fn.k > Len(fn.chain.order)
    /\ fn' = [fn EXCEPT !.op = "return",
                        !.result = ChainError(IF impl = "api"
                                              THEN "No provider returned a result. Last error: {last_error}"
                                              ELSE "No provider returned a valid result. Last error: {last_error}",
                                              fn.last_error)]
    /\ UNCHANGED <<impl, regVars, last, regLog, sessVars>>

NextChain == TryProvider \/ ChainExhausted

SpecChain == InitChain /\ [][NextChain]_vars

\* The loop returns what hybrid_online_search computes.
ChainLoopAgrees ==
    fn.op = "return" => fn.result = hybrid_online_search(impl, fn.chain)

\* The configured providers that have a function, among the first n.
RECURSIVE Callable(_, _, _)
Callable(i, order, n) ==
    IF n = 0 THEN <<>>
    ELSE IF has_provider(i, order[n])
         THEN Append(Callable(i, order, n - 1), order[n])
         ELSE Callable(i, order, n - 1)

\* C32: the chain invokes the providers in the configured order: the
\* providers invoked so far are exactly the callable ones among the
\* positions the loop has passed; it stops at the first provider whose
\* result it accepts, so every position before a returned result was not
\* accepted and nothing after it is invoked; and a provider that raised or
\* timed out did not end the chain: the loop went on to the next position
\* or returned the no-result error only after the last one.
C32_ChainOrderAndFirstSuccess ==
    fn.op \in {"for", "return"} =>
        /\ fn.k - 1 <= Len(fn.chain.order)
        /\ fn.invoked = Callable(impl, fn.chain.order, fn.k - 1)
        /\ \A j \in 1..(fn.k - 1) :
               (/\ has_provider(impl, fn.chain.order[j])
                /\ returns_result(impl, fn.chain.order[j], fn.chain.outs[j])) =>
                   /\ j = fn.k - 1
                   /\ fn.op = "return"
                   /\ fn.result.ok
                   /\ fn.result.provider = fn.chain.order[j]
        /\ (fn.op = "return" /\ ~fn.result.ok) => fn.k - 1 = Len(fn.chain.order)
        /\ (fn.op = "return" /\ fn.result.ok) =>
               /\ has_provider(impl, fn.chain.order[fn.k - 1])
               /\ returns_result(impl, fn.chain.order[fn.k - 1], fn.chain.outs[fn.k - 1])

\* The first provider's request failed, the second was invoked and its
\* result returned.
C32_Witness ==
    /\ fn.op = "return"
    /\ fn.result.ok
    /\ Len(fn.invoked) = 2
    /\ fn.chain.outs[1] = "fail"
    /\ fn.k - 1 < Len(fn.chain.order)
    /\ fn.result.provider = fn.chain.order[2]

\* C36: one hybrid search invokes each provider function at most once: no
\* provider occurs twice among the providers the loop has invoked, also
\* under the default configuration.
C36_EachProviderInvokedAtMostOnce ==
    fn.op \in {"for", "return"} =>
        \A a, b \in 1..Len(fn.invoked) : fn.invoked[a] = fn.invoked[b] => a = b

\* C33: when propose_new_tool requests of several sessions interleave, the
\* source a session's load executes is the source its own request carried.
C33_LoadExecutesOwnCode ==
    ev.step = "load" => files[unit[ev.s]] = code[ev.s]

\* C34: a hot-load that fails leaves the registry as it was before the
\* load, also when the source registered tools before it failed.
C34_FailedLoadLeavesRegistry ==
    [][(ev'.step = "load" /\ sent'[Len(sent')].type = "error") => regVars' = regVars]_vars

\* The register calls made so far that returned: register of api.py raises
\* on a callable that takes no attributes and stores nothing.
ReturnedRegistrations ==
    SelectSeq(regLog, LAMBDA e : impl = "main" \/ AcceptsAttributes(e.func))

\* The names of a list of register calls, each once, in the order of their
\* first occurrence.
RECURSIVE FirstRegistrationOrder(_)
FirstRegistrationOrder(log) ==
    IF log = <<>> THEN <<>>
    ELSE LET front == FirstRegistrationOrder(SubSeq(log, 1, Len(log) - 1))
             n == log[Len(log)].name
         IN  IF n \in Range(front) THEN front ELSE Append(front, n)

\* The most recent register call that returned and named n.
LatestReturned(n) ==
    LET calls == SelectSeq(ReturnedRegistrations, LAMBDA e : e.name = n)
    IN  calls[Len(calls)]

\* C35: after any sequence of register calls, the list serialize() returns
\* (when no description fails to be read) has exactly one entry per
\* registered name, in first-registration order, and each entry carries the
\* description and the schema of the most recent register call for its
\* name, also when one handler function is registered under several names.
C35_SerializeReflectsLatestPerName ==
    (last.op = "serialize" /\ serialize_list(impl, Registry).ok) =>
        /\ [k \in 1..Len(last.list) |-> last.list[k].name]
               = FirstRegistrationOrder(ReturnedRegistrations)
        /\ \A k \in 1..Len(last.list) :
               /\ last.list[k].description = LatestReturned(last.list[k].name).desc
               /\ last.list[k].args_schema
                      = SchemaOrEmpty(LatestReturned(last.list[k].name).schema)

(***************************************************************************)
(* A registered tool's result on its way through ToolService.execute_tool  *)
(* to the client and to used_tools.                                        *)
(***************************************************************************)
\* Paths given to read_file: a file of the workspace, a path outside it, a
\* path that does not exist, a directory, and a file that cannot be decoded.
Paths == {"notes.txt", "../secret", "missing.txt", "docs", "binary.dat"}

\* read_file(path) of tools/read_file.py: every failure is returned as a
\* dict with the single key "error"; a file that was read is returned as a
\* dict with its content.
read_file(path) ==
    CASE path = "../secret" ->
           PyDict(Text("Access denied: {tool} is outside workspace", path, <<>>),
                  {"error"}, "absent", "")
      [] path = "missing.txt" ->
           PyDict(Text("File not found: {tool}", path, <<>>), {"error"}, "absent", "")
      [] path = "docs" ->
           PyDict(Text("Path is not a file: {tool}", path, <<>>), {"error"}, "absent", "")
      [] path = "binary.dat" ->
           PyDict(Text("Failed to read {tool}: {e}", path, <<>>), {"error"}, "absent", "")
      [] OTHER ->
           PyDict(Lit("content"), {"content", "path", "size", "lines"}, "absent", "")

\* What self.registry.call(tool_name, **args) gives execute_tool: read_file
\* on a path, or one of the other handlers on its arguments.
ToolOutcomes ==
    {Returned(read_file(p), "read_file", {"path"}) : p \in Paths}
    \cup {Invoke(h, a) : h \in Handlers, a \in ArgSets}

\* The elif branch of execute_tool for a registered tool, with the except
\* branch around it.
execute_registered(out) ==
    IF out.kind = "return" THEN Normalize(out.value) ELSE ErrDict(out.value.body)

\* Who asked for the tool: an invoke message (handle_tool_invocation of
\* main.py) or a name in a generated text (_process_tool_calls).
Routes == {"invoke", "stream"}

InitExecute ==
    /\ impl = "main"
    /\ tools = <<>>
    /\ metadata = <<>>
    /\ fattr = [h \in Handlers |-> NoAttr]
    /\ Quiet
    /\ fn \in {[op |-> "call", route |-> r, out |-> o, result |-> PyNone,
                success |-> "absent", used_tools |-> <<>>] :
                   r \in Routes, o \in ToolOutcomes}

\* result = await tool_service.execute_tool(tool_name, args)
ExecuteTool ==
    /\ fn.op = "call"
    /\ fn' = [fn EXCEPT !.op = "execute_tool", !.result = execute_registered(fn.out)]
    /\ UNCHANGED <<impl, regVars, last, regLog, sessVars>>

\* What the caller does with the result: handle_tool_invocation sends
\* "success": result.get("success", False); _process_tool_calls appends the
\* tool to used_tools when result.get("success", False).
ReportResult ==
    /\ fn.op = "execute_tool"
    /\ fn' = [fn EXCEPT !.op = "reported",
                        !.success = IF fn.route = "invoke" THEN fn.result.success ELSE @,
                        !.used_tools = IF fn.route = "stream" /\ fn.result.success = "True"
                                       THEN <<fn.out.invoked>> ELSE @]
    /\ UNCHANGED <<impl, regVars, last, regLog, sessVars>>

NextExecute == ExecuteTool \/ ReportResult

SpecExecute == InitExecute /\ [][NextExecute]_vars

\* C37: execute_tool reports success = true only when the tool ran without
\* reporting an error: a handler result that carries an "error" key is not
\* given success = true, not sent to the client as a success and not
\* recorded in used_tools.
C37_ErrorResultIsNotSuccess ==
    (/\ fn.op \in {"execute_tool", "reported"}
     /\ fn.out.kind = "return"
     /\ "error" \in fn.out.value.keys) =>
        /\ fn.result.success # "True"
        /\ fn.success # "True"
        /\ fn.used_tools = <<>>

(***************************************************************************)
(* The registry snapshot messages: the initial message of a connection and *)
(* the reply to propose_new_tool, over registries holding any handlers.    *)
(***************************************************************************)
\* Tool sources of up to MaxRegister decorated definitions, with any of the
\* callables as the decorated object.
SnapshotSources ==
    UNION {[1..n -> {ToolStmt(name, h, m.desc, m.schema) :
                        name \in Names, h \in Handlers, m \in Metas}] :
             n \in 1..MaxRegister}

InitSnapshot ==
    /\ impl \in Impls
    /\ tools = <<>>
    /\ metadata = <<>>
    /\ fattr = [h \in Handlers |-> NoAttr]
    /\ Quiet
    /\ fn \in {[op |-> "source", source |-> src, msg |-> BaseMsg] : src \in SnapshotSources}

\* A connection is made to a backend that loaded the source at startup: the
\* initial message is built from the registry.
SendInitialMessage ==
    /\ fn.op = "source"
    /\ LET r == exec_module(impl, EmptyRegistry, fn.source).reg
       IN  fn' = [fn EXCEPT !.op = "initial",
                            !.msg = IF impl = "api"
                                    THEN InitialMessageApi(serialize("api", r).list)
                                    ELSE InitialMessageMain(r)]
    /\ UNCHANGED <<impl, regVars, last, regLog, sessVars>>

\* The source arrives in a propose_new_tool message (api.py) and loads: the
\* reply is built from the registry after the load.
SendHotLoadReply ==
    /\ impl = "api"
    /\ fn.op = "source"
    /\ exec_module("api", EmptyRegistry, fn.source).ok
    /\ fn' = [fn EXCEPT !.op = "propose_new_tool",
                        !.msg = HotLoadReply("u1", exec_module("api", EmptyRegistry,
                                                                fn.source))[1]]
    /\ UNCHANGED <<impl, regVars, last, regLog, sessVars>>

NextSnapshot == SendInitialMessage \/ SendHotLoadReply

SpecSnapshot == InitSnapshot /\ [][NextSnapshot]_vars

\* C38: in every registry snapshot message, the initial one and the one
\* after propose_new_tool, total_tools equals the number of entries of the
\* tools list of the same message.
C38_TotalToolsMatchesList ==
    fn.op \in {"initial", "propose_new_tool"} =>
        fn.msg.total_tools = Len(fn.msg.tools)

(***************************************************************************)
(* Model loading in main.py: model_loading_status, the load routine        *)
(* gpu_first_model_loading and the status checks of                        *)
(* handle_gpu_first_query, one step per stretch between two awaits.        *)
(***************************************************************************)
\* Number of query messages received in a behaviour.
MaxQueries == 3

\* What one run of the load routine meets: no model file, a model that
\* loads, a model whose load fails.
LoadOutcomes == {"No models found", "ok", "load failed"}

\* What generate_response does: it returns a text or raises.
GenerateOutcomes == {"text", "raise"}

\* model_loading_status = {"loaded": False, "loading": False, "error": None}
NotLoaded == [loaded |-> FALSE, loading |-> FALSE, error |-> "None"]

\* gpu_first_model_loading(): there is no await in it, so it runs from
\* `loading = True` to the `finally` that resets it without giving up the
\* event loop.  Every failure assigns "error"; success assigns "loaded" and
\* leaves "error" as it is.
gpu_first_model_loading(status, gpu_backend, o) ==
    IF o = "No models found" THEN [status EXCEPT !.loading = FALSE, !.error = o]
    ELSE IF ~gpu_backend THEN [status EXCEPT !.loading = FALSE, !.error = "No GPU backend"]
    ELSE IF o = "ok" THEN [status EXCEPT !.loading = FALSE, !.loaded = TRUE]
    ELSE [status EXCEPT !.loading = FALSE, !.error = o]

ModelReply(s, type, text) == [s |-> s, type |-> type, text |-> text]

NoModelReply == ModelReply("", "", "")

\* `if gpu_backend and model_loading_status["loaded"]:` with its else.
generate(s, status, gpu_backend, g) ==
    IF gpu_backend /\ status.loaded
    THEN IF g = "text" THEN ModelReply(s, "response", "gpu_first_backend")
         ELSE ModelReply(s, "error", "GPU generation failed: {e}")
    ELSE ModelReply(s, "response", "gpu_first_fallback")

InitModel ==
    /\ impl = "main"
    /\ tools = <<>>
    /\ metadata = <<>>
    /\ fattr = [h \in Handlers |-> NoAttr]
    /\ Quiet
    /\ fn \in {[op |-> "model", no_model_preload |-> np, gpu_backend |-> gb,
                preload |-> IF ~np /\ gd THEN "pending" ELSE "none",
                status |-> NotLoaded, at |-> [s \in Sessions |-> "recv"],
                queries |-> 0, loads |-> 0, reply |-> NoModelReply] :
                   np \in BOOLEAN, gb \in BOOLEAN, gd \in BOOLEAN}

\* asyncio.create_task(gpu_first_model_loading()) of the lifespan, when
\* preloading is on and a GPU was detected.
Preload(o) ==
    /\ fn.op = "model"
    /\ fn.preload = "pending"
    /\ fn' = [fn EXCEPT !.preload = "done", !.loads = @ + 1,
                        !.status = gpu_first_model_loading(@, fn.gpu_backend, o),
                        !.reply = NoModelReply]
    /\ UNCHANGED <<impl, regVars, last, regLog, sessVars>>

\* A query arrives: the handler awaits the send of the "thinking" message.
QueryThinking(s) ==
    /\ fn.op = "model"
    /\ fn.at[s] = "recv"
    /\ fn.queries < MaxQueries
    /\ fn' = [fn EXCEPT !.at[s] = "thinking", !.queries = @ + 1,
                        !.reply = ModelReply(s, "thinking", "")]
    /\ UNCHANGED <<impl, regVars, last, regLog, sessVars>>

\* The if/elif chain on model_loading_status, up to the next await: the
\* on-demand branch announces the load and awaits that send before the load.
QueryCheck(s, g) ==
    /\ fn.op = "model"
    /\ fn.at[s] = "thinking"
    /\ IF ~fn.status.loaded /\ ~fn.status.loading
       THEN IF fn.no_model_preload
            THEN fn' = [fn EXCEPT !.at[s] = "announced",
                                  !.reply = ModelReply(s, "loading", "Loading GPU model on demand...")]
            ELSE fn' = [fn EXCEPT !.at[s] = "recv",
                                  !.reply = ModelReply(s, "error",
                                      "GPU model not loaded and preloading is disabled")]
       ELSE IF fn.status.loading
       THEN fn' = [fn EXCEPT !.at[s] = "recv",
                             !.reply = ModelReply(s, "loading",
                                 "GPU model is currently loading, please wait...")]
       ELSE IF fn.status.error # "None"
       THEN fn' = [fn EXCEPT !.at[s] = "recv",
                             !.reply = ModelReply(s, "error", "GPU model loading failed: {error}")]
       ELSE fn' = [fn EXCEPT !.at[s] = "recv",
                             !.reply = generate(s, fn.status, fn.gpu_backend, g)]
    /\ UNCHANGED <<impl, regVars, last, regLog, sessVars>>

\* await gpu_first_model_loading() of the on-demand branch, after the
\* "loading" message went out, and the generation that follows it.
QueryLoad(s, o, g) ==
    /\ fn.op = "model"
    /\ fn.at[s] = "announced"
    /\ LET status == gpu_first_model_loading(fn.status, fn.gpu_backend, o)
       IN  fn' = [fn EXCEPT !.at[s] = "recv", !.loads = @ + 1, !.status = status,
                            !.reply = generate(s, status, fn.gpu_backend, g)]
    /\ UNCHANGED <<impl, regVars, last, regLog, sessVars>>

NextModel ==
    \/ \E o \in LoadOutcomes : Preload(o)
    \/ \E s \in Sessions : QueryThinking(s)
    \/ \E s \in Sessions, g \in GenerateOutcomes : QueryCheck(s, g)
    \/ \E s \in Sessions, o \in LoadOutcomes, g \in GenerateOutcomes : QueryLoad(s, o, g)

SpecModel == InitModel /\ [][NextModel]_vars

\* The replies that report the state of model loading instead of answering.
ModelLoadingErrors ==
    {"GPU model not loaded and preloading is disabled",
     "GPU model loading failed: {error}"}

\* C39: once a model load has succeeded, a query is answered by the
\* generation and never with a model-loading error or a "loading" notice,
\* even if an earlier load attempt recorded an error.
C39_LoadedModelAnswersQueries ==
    [][(/\ fn.at # fn'.at
        /\ fn.status.loaded
        /\ fn'.reply.type # "thinking") =>
           /\ fn'.reply.type # "loading"
           /\ fn'.reply.text \notin ModelLoadingErrors]_vars

\* C40: the load routine is started only when no model is loaded and no
\* load is in progress: queries of several sessions that arrive while the
\* model is not loaded do not start it a second time once it has loaded.
C40_LoadStartsOnlyWhenUnloaded ==
    [][fn'.loads > fn.loads => (~fn.status.loaded /\ ~fn.status.loading)]_vars

====
